---- MODULE Spec2Model ----
(***************************************************************************)
(* Model of the pycalorie calculation engine                               *)
(* (src/pycalorie/services/calculator_service.py).                         *)
(*                                                                         *)
(* The engine is a set of pure Python functions over float, int and str.   *)
(* A state of the model is the call being made: the name of the function, *)
(* its arguments and its outcome (a returned value or a raised exception), *)
(* or no call at all.  One action per engine function draws the arguments  *)
(* from bounded sets and applies the function; return_to_caller ends the   *)
(* call.                                                                   *)
(*                                                                         *)
(* Numbers.  A Python float is modelled by the exact rational <<n, d>>     *)
(* (d > 0, lowest terms); a Python int by a TLA+ integer.  The modelled    *)
(* argument sets hold only values on which the binary64 evaluation of the  *)
(* source and the exact evaluation give the same result (integers and      *)
(* halves for weights and heights; no calorie goal, fraction, weight or    *)
(* percentage whose exact value lies halfway between two multiples of 0.1  *)
(* while its binary64 value does not); on those sets round(x, 1) is        *)
(* round-half-to-even of the exact value.                                  *)
(*                                                                         *)
(* Four specifications share the variables.  Spec makes one engine call    *)
(* at a time; SpecThreads interleaves engine calls of two threads line by  *)
(* line; SpecProfile sends requests to the onboarding wizard and the       *)
(* profile form (src/accounts); SpecLog lets two workers serve the food,   *)
(* water and prediction views (src/pycalorie) statement by statement.      *)
(***************************************************************************)
EXTENDS Integers, Sequences, FiniteSets, TLC

VARIABLES
    fn, args, ret,          \* the call being made, its arguments, its outcome
    frames, heap,           \* concurrent engine calls: a frame per thread, and
                            \* the mappings the callers own
    profiles,               \* the UserProfile rows
    daily_logs,             \* the DailyLog rows
    food_entries,           \* the FoodEntry rows
    predictions,            \* the CaloriePrediction rows
    sequences,              \* the next primary key of each table
    requests,               \* the request each worker of the site is serving
    history                 \* what completed so far (not program state)

vars ==
    <<fn, args, ret, frames, heap, profiles, daily_logs, food_entries, predictions,
      sequences, requests, history>>

\* the state of the site, which no engine call reads or writes
site_vars == <<profiles, daily_logs, food_entries, predictions, sequences, requests, history>>

\* the state of the threads that call the engine concurrently
thread_vars == <<frames, heap>>

----------------------------------------------------------------------------
(* Bounds of the argument sets *)

\* ages are the multiples of 30 from -30 to 30 * MaxAgeIdx
MaxAgeIdx == 4
\* tdee arguments are the multiples of 250 from -250 to 250 * MaxTdeeIdx,
\* and the values next to each clamp threshold
MaxTdeeIdx == 12
\* weights are 45 + 25 * i and heights 150 + 25 * i for i in 0 .. MaxGridIdx,
\* besides the edge values
MaxGridIdx == 2
\* bmi arguments of get_bmi_category are the halves from -1 to MaxBmiIdx / 2,
\* and the values next to each boundary
MaxBmiIdx == 70
\* consumed arguments of calculate_nutrition_percentage are the multiples of
\* 500 from 0 to 500 * MaxConsumedIdx, besides the edge values
MaxConsumedIdx == 5

----------------------------------------------------------------------------
(* Python float arithmetic on exact rationals *)

Abs(x) == IF x < 0 THEN -x ELSE x

RECURSIVE GCD(_, _)
GCD(a, b) == IF b = 0 THEN a ELSE GCD(b, a % b)

\* the float n/d, d # 0
R(n, d) ==
    LET s == IF d < 0 THEN -1 ELSE 1
        g == GCD(Abs(n), Abs(d))
    IN  <<(s * n) \div g, (s * d) \div g>>

I(n) == <<n, 1>>

RAdd(x, y) == R(x[1] * y[2] + y[1] * x[2], x[2] * y[2])
RSub(x, y) == R(x[1] * y[2] - y[1] * x[2], x[2] * y[2])
RMul(x, y) == R(x[1] * y[1], x[2] * y[2])
\* y # 0
RDiv(x, y) == R(x[1] * y[2], x[2] * y[1])
RLt(x, y) == x[1] * y[2] < y[1] * x[2]
RLe(x, y) == x[1] * y[2] <= y[1] * x[2]
RIsZero(x) == x[1] = 0

\* a variant of PyInt that takes the floor (math.floor in place of int)
PyInt_floor(x) == x[1] \div x[2]

\* int(x): truncation toward zero
PyInt(x) == IF x[1] >= 0 THEN x[1] \div x[2] ELSE -((-x[1]) \div x[2])

\* a variant of PyRound1 that cuts the digits after the first decimal
PyRound1_cut(x) ==
    LET num == 10 * x[1]
    IN  R(IF num >= 0 THEN num \div x[2] ELSE -((-num) \div x[2]), 10)

\* round(x, 1): nearest multiple of 0.1, an exact tie goes to the even digit
PyRound1(x) ==
    LET num == 10 * x[1]
        fl == num \div x[2]
        rem2 == 2 * (num - fl * x[2])
        up == rem2 > x[2] \/ (rem2 = x[2] /\ fl % 2 = 1)
    IN  R(IF up THEN fl + 1 ELSE fl, 10)

\* max(a, b) on ints
PyMax(a, b) == IF b > a THEN b ELSE a

----------------------------------------------------------------------------
(* Outcomes of a call, and the Python built-ins the engine uses *)

Return(v) == [kind |-> "return", val |-> v]
Raise(e) == [kind |-> "raise", val |-> e]

\* str.lower() on the modelled strings
lower(s) ==
    CASE s = "M" -> "m"
      [] s = "F" -> "f"
      [] s = "O" -> "o"
      [] s = "MALE" -> "male"
      [] s = "Male" -> "male"
      [] s = "FEMALE" -> "female"
      [] s = "Female" -> "female"
      [] s = "SEDENTARY" -> "sedentary"
      [] s = "Light" -> "light"
      [] s = "MODERATE" -> "moderate"
      [] s = "Active" -> "active"
      [] s = "VERY_ACTIVE" -> "very_active"
      [] s = "Very_Active" -> "very_active"
      [] s = "EXTREME" -> "extreme"
      [] OTHER -> s

\* a variant of DictGet that subscripts the dict (d[key]) and ignores the default
DictGet_subscript(d, key, default) ==
    IF key \in DOMAIN d THEN Return(d[key]) ELSE Raise("KeyError")

\* dict.get(key, default)
DictGet(d, key, default) ==
    IF key \in DOMAIN d THEN Return(d[key]) ELSE Return(default)

\* d[key]
DictItem(d, key) ==
    IF key \in DOMAIN d THEN Return(d[key]) ELSE Raise("KeyError")

\* None, as the value of an Optional[Dict] argument
PyNone == [none |-> TRUE]

----------------------------------------------------------------------------
(* The engine *)

\* a variant of calculate_bmr that compares gender as given
calculate_bmr_nolower(weight_kg, height_cm, age, gender) ==
    LET gender_normalized == gender
        base == RSub(RAdd(RMul(I(10), weight_kg), RMul(R(625, 100), height_cm)),
                     RMul(I(5), I(age)))
    IN  IF gender_normalized \in {"male", "m"}
        THEN Return(RAdd(base, I(5)))
        ELSE IF gender_normalized \in {"female", "f"}
        THEN Return(RSub(base, I(161)))
        ELSE LET male_bmr == RAdd(base, I(5))
                 female_bmr == RSub(base, I(161))
             IN  Return(RDiv(RAdd(male_bmr, female_bmr), I(2)))

\* a variant of calculate_bmr that adds the age term
calculate_bmr_age_added(weight_kg, height_cm, age, gender) ==
    LET gender_normalized == lower(gender)
        base == RAdd(RAdd(RMul(I(10), weight_kg), RMul(R(625, 100), height_cm)),
                     RMul(I(5), I(age)))
    IN  IF gender_normalized \in {"male", "m"}
        THEN Return(RAdd(base, I(5)))
        ELSE IF gender_normalized \in {"female", "f"}
        THEN Return(RSub(base, I(161)))
        ELSE LET male_bmr == RAdd(base, I(5))
                 female_bmr == RSub(base, I(161))
             IN  Return(RDiv(RAdd(male_bmr, female_bmr), I(2)))

\* a variant of calculate_bmr whose last branch takes the female formula
calculate_bmr_else_female(weight_kg, height_cm, age, gender) ==
    LET gender_normalized == lower(gender)
        base == RSub(RAdd(RMul(I(10), weight_kg), RMul(R(625, 100), height_cm)),
                     RMul(I(5), I(age)))
    IN  IF gender_normalized \in {"male", "m"}
        THEN Return(RAdd(base, I(5)))
        ELSE Return(RSub(base, I(161)))

\* calculate_bmr(weight_kg, height_cm, age, gender)
calculate_bmr(weight_kg, height_cm, age, gender) ==
    LET gender_normalized == lower(gender)
        base == RSub(RAdd(RMul(I(10), weight_kg), RMul(R(625, 100), height_cm)),
                     RMul(I(5), I(age)))
    IN  IF gender_normalized \in {"male", "m"}
        THEN Return(RAdd(base, I(5)))
        ELSE IF gender_normalized \in {"female", "f"}
        THEN Return(RSub(base, I(161)))
        ELSE LET male_bmr == RAdd(base, I(5))
                 female_bmr == RSub(base, I(161))
             IN  Return(RDiv(RAdd(male_bmr, female_bmr), I(2)))

activity_multipliers ==
    [k \in {"sedentary", "light", "moderate", "active", "very_active"} |->
        CASE k = "sedentary" -> R(12, 10)
          [] k = "light" -> R(1375, 1000)
          [] k = "moderate" -> R(155, 100)
          [] k = "active" -> R(1725, 1000)
          [] k = "very_active" -> R(19, 10)]

\* a variant of calculate_tdee that looks activity_level up as given
calculate_tdee_nolower(weight_kg, height_cm, age, gender, activity_level) ==
    LET bmr == calculate_bmr(weight_kg, height_cm, age, gender)
        multiplier == DictGet(activity_multipliers, activity_level, R(155, 100))
    IN  IF bmr.kind = "raise" THEN bmr
        ELSE IF multiplier.kind = "raise" THEN multiplier
        ELSE LET tdee == RMul(bmr.val, multiplier.val)
             IN  Return(PyInt(tdee))

\* calculate_tdee(weight_kg, height_cm, age, gender, activity_level)
calculate_tdee(weight_kg, height_cm, age, gender, activity_level) ==
    LET bmr == calculate_bmr(weight_kg, height_cm, age, gender)
        multiplier == DictGet(activity_multipliers, lower(activity_level), R(155, 100))
    IN  IF bmr.kind = "raise" THEN bmr
        ELSE IF multiplier.kind = "raise" THEN multiplier
        ELSE LET tdee == RMul(bmr.val, multiplier.val)
             IN  Return(PyInt(tdee))

\* a variant of calculate_bmi guarded like calculate_nutrition_percentage
calculate_bmi_guarded(weight_kg, height_cm) ==
    LET height_m == RDiv(height_cm, I(100))
        height_m2 == RMul(height_m, height_m)
    IN  IF RIsZero(height_m2) THEN Return(I(0))
        ELSE Return(PyRound1(RDiv(weight_kg, height_m2)))

\* calculate_bmi(weight_kg, height_cm)
calculate_bmi(weight_kg, height_cm) ==
    LET height_m == RDiv(height_cm, I(100))
        height_m2 == RMul(height_m, height_m)
    IN  IF RIsZero(height_m2) THEN Raise("ZeroDivisionError")
        ELSE Return(PyRound1(RDiv(weight_kg, height_m2)))

\* a variant of get_bmi_category whose boundaries are upper-inclusive
get_bmi_category_le(bmi) ==
    IF RLe(bmi, R(185, 10)) THEN Return("Underweight")
    ELSE IF RLe(bmi, I(25)) THEN Return("Normal weight")
    ELSE IF RLe(bmi, I(30)) THEN Return("Overweight")
    ELSE Return("Obese")

\* get_bmi_category(bmi)
get_bmi_category(bmi) ==
    IF RLt(bmi, R(185, 10)) THEN Return("Underweight")
    ELSE IF RLe(R(185, 10), bmi) /\ RLt(bmi, I(25)) THEN Return("Normal weight")
    ELSE IF RLe(I(25), bmi) /\ RLt(bmi, I(30)) THEN Return("Overweight")
    ELSE Return("Obese")

\* a variant of goal_adjustments with the two gains exchanged
goal_adjustments_exchanged ==
    [k \in {"weight_loss", "weight_gain", "muscle_gain", "maintain", "general_health"} |->
        CASE k = "weight_loss" -> -500
          [] k = "weight_gain" -> 500
          [] k = "muscle_gain" -> 300
          [] k = "maintain" -> 0
          [] k = "general_health" -> 0]

goal_adjustments ==
    [k \in {"weight_loss", "weight_gain", "muscle_gain", "maintain", "general_health"} |->
        CASE k = "weight_loss" -> -500
          [] k = "weight_gain" -> 300
          [] k = "muscle_gain" -> 500
          [] k = "maintain" -> 0
          [] k = "general_health" -> 0]

\* a variant of calculate_calorie_goal_for_goal without the minimum
calculate_calorie_goal_for_goal_unclamped(tdee, health_goal) ==
    LET adjustment == DictGet(goal_adjustments, health_goal, 0)
    IN  IF adjustment.kind = "raise" THEN adjustment
        ELSE LET calorie_goal == tdee + adjustment.val
             IN  Return(calorie_goal)

\* calculate_calorie_goal_for_goal(tdee, health_goal)
calculate_calorie_goal_for_goal(tdee, health_goal) ==
    LET adjustment == DictGet(goal_adjustments, health_goal, 0)
    IN  IF adjustment.kind = "raise" THEN adjustment
        ELSE LET calorie_goal == tdee + adjustment.val
             IN  Return(PyMax(1200, calorie_goal))

\* a variant of calculate_macros that takes 4 calories per gram of fat
calculate_macros_fat4(calorie_goal, macro_ratio) ==
    LET ratio == IF macro_ratio = PyNone
                 THEN [protein |-> R(3, 10), carbs |-> R(4, 10), fat |-> R(3, 10)]
                 ELSE macro_ratio
        protein == DictItem(ratio, "protein")
        carbs == DictItem(ratio, "carbs")
        fat == DictItem(ratio, "fat")
    IN  IF protein.kind = "raise" THEN protein
        ELSE IF carbs.kind = "raise" THEN carbs
        ELSE IF fat.kind = "raise" THEN fat
        ELSE LET protein_calories == RMul(I(calorie_goal), protein.val)
                 carbs_calories == RMul(I(calorie_goal), carbs.val)
                 fat_calories == RMul(I(calorie_goal), fat.val)
                 protein_g == RDiv(protein_calories, I(4))
                 carbs_g == RDiv(carbs_calories, I(4))
                 fat_g == RDiv(fat_calories, I(4))
             IN  Return([protein_g |-> PyRound1(protein_g),
                         carbs_g |-> PyRound1(carbs_g),
                         fat_g |-> PyRound1(fat_g)])

\* a variant of calculate_macros that scales the fractions to sum to 1
calculate_macros_normalized(calorie_goal, macro_ratio) ==
    LET ratio == IF macro_ratio = PyNone
                 THEN [protein |-> R(3, 10), carbs |-> R(4, 10), fat |-> R(3, 10)]
                 ELSE macro_ratio
        protein == DictItem(ratio, "protein")
        carbs == DictItem(ratio, "carbs")
        fat == DictItem(ratio, "fat")
    IN  IF protein.kind = "raise" THEN protein
        ELSE IF carbs.kind = "raise" THEN carbs
        ELSE IF fat.kind = "raise" THEN fat
        ELSE LET total == RAdd(protein.val, RAdd(carbs.val, fat.val))
                 scale == IF RIsZero(total) THEN I(1) ELSE total
                 protein_calories == RMul(I(calorie_goal), RDiv(protein.val, scale))
                 carbs_calories == RMul(I(calorie_goal), RDiv(carbs.val, scale))
                 fat_calories == RMul(I(calorie_goal), RDiv(fat.val, scale))
                 protein_g == RDiv(protein_calories, I(4))
                 carbs_g == RDiv(carbs_calories, I(4))
                 fat_g == RDiv(fat_calories, I(9))
             IN  Return([protein_g |-> PyRound1(protein_g),
                         carbs_g |-> PyRound1(carbs_g),
                         fat_g |-> PyRound1(fat_g)])

\* calculate_macros(calorie_goal, macro_ratio)
calculate_macros(calorie_goal, macro_ratio) ==
    LET ratio == IF macro_ratio = PyNone
                 THEN [protein |-> R(3, 10), carbs |-> R(4, 10), fat |-> R(3, 10)]
                 ELSE macro_ratio
        protein == DictItem(ratio, "protein")
        carbs == DictItem(ratio, "carbs")
        fat == DictItem(ratio, "fat")
    IN  IF protein.kind = "raise" THEN protein
        ELSE IF carbs.kind = "raise" THEN carbs
        ELSE IF fat.kind = "raise" THEN fat
        ELSE LET protein_calories == RMul(I(calorie_goal), protein.val)
                 carbs_calories == RMul(I(calorie_goal), carbs.val)
                 fat_calories == RMul(I(calorie_goal), fat.val)
                 protein_g == RDiv(protein_calories, I(4))
                 carbs_g == RDiv(carbs_calories, I(4))
                 fat_g == RDiv(fat_calories, I(9))
             IN  Return([protein_g |-> PyRound1(protein_g),
                         carbs_g |-> PyRound1(carbs_g),
                         fat_g |-> PyRound1(fat_g)])

\* a variant of calculate_water_goal clamped to the range of the profile's
\* water_goal_liters field (0.5 to 10.0)
calculate_water_goal_clamped(weight_kg) ==
    LET water_liters == RMul(weight_kg, R(33, 1000))
        rounded == PyRound1(water_liters)
    IN  Return(IF RLt(rounded, R(1, 2)) THEN R(1, 2)
               ELSE IF RLt(I(10), rounded) THEN I(10)
               ELSE rounded)

\* calculate_water_goal(weight_kg)
calculate_water_goal(weight_kg) ==
    LET water_liters == RMul(weight_kg, R(33, 1000))
    IN  Return(PyRound1(water_liters))

\* a variant of calculate_ideal_weight_range with an upper bound of its own
\* for a female gender
calculate_ideal_weight_range_by_gender(height_cm, gender) ==
    LET height_m == RDiv(height_cm, I(100))
        upper == IF lower(gender) \in {"female", "f"} THEN I(24) ELSE R(249, 10)
        min_weight == RMul(R(185, 10), RMul(height_m, height_m))
        max_weight == RMul(upper, RMul(height_m, height_m))
    IN  Return([min_weight |-> PyRound1(min_weight),
                max_weight |-> PyRound1(max_weight)])

\* a variant of calculate_ideal_weight_range that leaves height_m unsquared
calculate_ideal_weight_range_unsquared(height_cm, gender) ==
    LET height_m == RDiv(height_cm, I(100))
        min_weight == RMul(R(185, 10), height_m)
        max_weight == RMul(R(249, 10), height_m)
    IN  Return([min_weight |-> PyRound1(min_weight),
                max_weight |-> PyRound1(max_weight)])

\* calculate_ideal_weight_range(height_cm, gender)
calculate_ideal_weight_range(height_cm, gender) ==
    LET height_m == RDiv(height_cm, I(100))
        min_weight == RMul(R(185, 10), RMul(height_m, height_m))
        max_weight == RMul(R(249, 10), RMul(height_m, height_m))
    IN  Return([min_weight |-> PyRound1(min_weight),
                max_weight |-> PyRound1(max_weight)])

\* a variant of calculate_nutrition_percentage without the guard of line 248
calculate_nutrition_percentage_unguarded(consumed, goal) ==
    IF RIsZero(goal) THEN Raise("ZeroDivisionError")
    ELSE LET percentage == RMul(RDiv(consumed, goal), I(100))
         IN  Return(PyRound1(percentage))

\* calculate_nutrition_percentage(consumed, goal)
calculate_nutrition_percentage(consumed, goal) ==
    IF RIsZero(goal) THEN Return(I(0))
    ELSE LET percentage == RMul(RDiv(consumed, goal), I(100))
         IN  Return(PyRound1(percentage))

----------------------------------------------------------------------------
(* Argument sets *)

Weights ==
    {I(-10), I(0), I(70), R(141, 2), I(73)} \cup {I(45 + 25 * i) : i \in 0..MaxGridIdx}

Heights ==
    {I(0), I(100), I(175), R(351, 2), I(200)} \cup {I(150 + 25 * i) : i \in 0..MaxGridIdx}

Ages == {30 * i : i \in -1..MaxAgeIdx}

Genders == {"male", "female", "m", "f", "M", "F", "MALE", "FEMALE", "O", "other", ""}

Activities ==
    {"sedentary", "light", "moderate", "active", "very_active",
     "SEDENTARY", "Light", "Very_Active", "extreme", ""}

HealthGoals ==
    {"weight_loss", "weight_gain", "muscle_gain", "maintain", "general_health",
     "WEIGHT_LOSS", "keto", ""}

Tdees ==
    {250 * i : i \in -1..MaxTdeeIdx}
        \cup {699, 700, 701, 899, 900, 901, 1199, 1200, 1201, 1699, 1700, 1701, 2555}

Bmis ==
    {R(i, 2) : i \in -2..MaxBmiIdx}
        \cup {R(1849, 100), R(229, 10), R(249, 10), R(2499, 100), R(2999, 100)}

Fractions == {I(0), R(1, 4), R(3, 10), R(4, 10), R(1, 2), R(3, 2)}

\* the fractions of the mappings that leave a key out
FewFractions == {R(4, 10), R(1, 2)}

\* every mapping with the three keys, and every mapping with one or two of them
MacroRatios ==
    [protein : Fractions, carbs : Fractions, fat : Fractions]
        \cup [protein : FewFractions, carbs : FewFractions]
        \cup [protein : FewFractions, fat : FewFractions]
        \cup [carbs : FewFractions, fat : FewFractions]
        \cup [protein : FewFractions] \cup [carbs : FewFractions] \cup [fat : FewFractions]

\* heights of calculate_ideal_weight_range: those of the other calls and two
\* below the range of the profile's height field
IdealHeights == Heights \cup {I(20), I(50)}

Consumeds == {I(-50), R(201, 2)} \cup {I(500 * i) : i \in 0..MaxConsumedIdx}

Goals == {I(0), I(-100), I(3), I(50), I(150), I(2000)}

----------------------------------------------------------------------------
(* The state before any call and any request *)

\* the threads of a process that call the engine concurrently
Threads == {"t1", "t2"}

\* a thread that is in no engine call
NoFrame ==
    [fn |-> "none", pc |-> "none", args |-> PyNone, locals |-> PyNone,
     ret |-> [kind |-> "none", val |-> "none"]]

\* the ratio mappings the callers of calculate_macros own: a full one and one
\* that leaves two keys out
CallerMappings ==
    [m1 |-> [protein |-> R(4, 10), carbs |-> R(4, 10), fat |-> R(2, 10)],
     m2 |-> [protein |-> R(4, 10)]]

\* a str and an int where the value may be None as well
Str(s) == [str |-> s]
Num(n) == [int |-> n]

\* a datetime.date
Date(y, m, d) == [year |-> y, month |-> m, day |-> d]

\* the registered users
Users == {"alice", "bob"}

\* the workers of the site, each serving one request at a time
Workers == {"w1", "w2"}

\* the UserProfile that create_user_profile makes for a new User: every field
\* at its default
create_user_profile ==
    [weight_kg |-> PyNone, height_cm |-> PyNone, date_of_birth |-> PyNone,
     gender |-> Str("O"), activity_level |-> Str("moderate"),
     health_goal |-> Str("maintain"), daily_calorie_goal |-> PyNone, bmi |-> PyNone,
     water_goal_liters |-> R(2, 1), is_onboarding_complete |-> FALSE]

\* a worker that serves no request
NoRequest ==
    [view |-> "none", pc |-> "idle", user |-> "none", id |-> 0, date |-> PyNone,
     entry |-> PyNone, daily_log |-> PyNone, defaults |-> PyNone,
     prediction |-> PyNone, get_or_create |-> "none", response |-> "none"]

\* the site right after the users signed up: a profile each, nothing logged
InitSite ==
    /\ profiles = [u \in Users |-> create_user_profile]
    /\ daily_logs = {}
    /\ food_entries = {}
    /\ predictions = {}
    /\ sequences = [daily_log |-> 1, food_entry |-> 1, prediction |-> 1]
    /\ requests = [w \in Workers |-> NoRequest]
    /\ history = [requests |-> 0, add_water |-> [u \in Users |-> 0],
                  saved_predictions |-> {}]

InitThreads ==
    /\ frames = [t \in Threads |-> NoFrame]
    /\ heap = CallerMappings

----------------------------------------------------------------------------
(* The calls *)

Init ==
    /\ fn = "none"
    /\ args = [none |-> TRUE]
    /\ ret = [kind |-> "none", val |-> "none"]
    /\ InitThreads
    /\ InitSite

call_calculate_bmr ==
    /\ fn = "none"
    /\ \E w \in Weights, h \in Heights, a \in Ages, g \in Genders :
           /\ fn' = "calculate_bmr"
           /\ args' = [weight_kg |-> w, height_cm |-> h, age |-> a, gender |-> g]
           /\ ret' = calculate_bmr(w, h, a, g)
    /\ UNCHANGED <<thread_vars, site_vars>>

call_calculate_tdee ==
    /\ fn = "none"
    /\ \E w \in Weights, h \in Heights, a \in Ages, g \in Genders, l \in Activities :
           /\ fn' = "calculate_tdee"
           /\ args' = [weight_kg |-> w, height_cm |-> h, age |-> a, gender |-> g,
                       activity_level |-> l]
           /\ ret' = calculate_tdee(w, h, a, g, l)
    /\ UNCHANGED <<thread_vars, site_vars>>

call_calculate_bmi ==
    /\ fn = "none"
    /\ \E w \in Weights, h \in Heights :
           /\ fn' = "calculate_bmi"
           /\ args' = [weight_kg |-> w, height_cm |-> h]
           /\ ret' = calculate_bmi(w, h)
    /\ UNCHANGED <<thread_vars, site_vars>>

call_get_bmi_category ==
    /\ fn = "none"
    /\ \E b \in Bmis :
           /\ fn' = "get_bmi_category"
           /\ args' = [bmi |-> b]
           /\ ret' = get_bmi_category(b)
    /\ UNCHANGED <<thread_vars, site_vars>>

call_calculate_calorie_goal_for_goal ==
    /\ fn = "none"
    /\ \E t \in Tdees, g \in HealthGoals :
           /\ fn' = "calculate_calorie_goal_for_goal"
           /\ args' = [tdee |-> t, health_goal |-> g]
           /\ ret' = calculate_calorie_goal_for_goal(t, g)
    /\ UNCHANGED <<thread_vars, site_vars>>

call_calculate_macros ==
    /\ fn = "none"
    /\ \E c \in Tdees, m \in MacroRatios \cup {PyNone} :
           /\ fn' = "calculate_macros"
           /\ args' = [calorie_goal |-> c, macro_ratio |-> m]
           /\ ret' = calculate_macros(c, m)
    /\ UNCHANGED <<thread_vars, site_vars>>

call_calculate_water_goal ==
    /\ fn = "none"
    /\ \E w \in Weights :
           /\ fn' = "calculate_water_goal"
           /\ args' = [weight_kg |-> w]
           /\ ret' = calculate_water_goal(w)
    /\ UNCHANGED <<thread_vars, site_vars>>

call_calculate_ideal_weight_range ==
    /\ fn = "none"
    /\ \E h \in IdealHeights, g \in Genders :
           /\ fn' = "calculate_ideal_weight_range"
           /\ args' = [height_cm |-> h, gender |-> g]
           /\ ret' = calculate_ideal_weight_range(h, g)
    /\ UNCHANGED <<thread_vars, site_vars>>

call_calculate_nutrition_percentage ==
    /\ fn = "none"
    /\ \E c \in Consumeds, g \in Goals :
           /\ fn' = "calculate_nutrition_percentage"
           /\ args' = [consumed |-> c, goal |-> g]
           /\ ret' = calculate_nutrition_percentage(c, g)
    /\ UNCHANGED <<thread_vars, site_vars>>

\* the caller takes the outcome; the engine keeps nothing of the call
return_to_caller ==
    /\ fn # "none"
    /\ fn' = "none"
    /\ args' = [none |-> TRUE]
    /\ ret' = [kind |-> "none", val |-> "none"]
    /\ UNCHANGED <<thread_vars, site_vars>>

Next ==
    \/ call_calculate_bmr
    \/ call_calculate_tdee
    \/ call_calculate_bmi
    \/ call_get_bmi_category
    \/ call_calculate_calorie_goal_for_goal
    \/ call_calculate_macros
    \/ call_calculate_water_goal
    \/ call_calculate_ideal_weight_range
    \/ call_calculate_nutrition_percentage
    \/ return_to_caller

Spec == Init /\ [][Next]_vars

----------------------------------------------------------------------------
(* Properties of calculate_calorie_goal_for_goal *)

\* C1: whatever the tdee (zero and negative included) and whatever the
\* health_goal string, calculate_calorie_goal_for_goal returns a value that
\* is at least 1200.
C1_CalorieGoalAtLeast1200 ==
    fn = "calculate_calorie_goal_for_goal" =>
        /\ ret.kind = "return"
        /\ ret.val >= 1200

\* a weight_loss goal on a tdee of zero or less comes out as 1200
C1_Witness ==
    /\ fn = "calculate_calorie_goal_for_goal"
    /\ args.tdee <= 0
    /\ args.health_goal = "weight_loss"
    /\ ret = Return(1200)

\* C2: calculate_calorie_goal_for_goal returns max(1200, tdee + offset), the
\* offset being -500 for weight_loss, +300 for weight_gain, +500 for
\* muscle_gain, 0 for maintain and general_health and 0 for every other string.
C2_CalorieGoalIsClampedOffset ==
    fn = "calculate_calorie_goal_for_goal" =>
        LET g == args.health_goal
            offset == CASE g = "weight_loss" -> -500
                        [] g = "weight_gain" -> 300
                        [] g = "muscle_gain" -> 500
                        [] OTHER -> 0
            sum == args.tdee + offset
        IN  ret = Return(IF sum >= 1200 THEN sum ELSE 1200)

\* an unrecognized goal string above the minimum leaves the tdee as it is
C2_Witness ==
    /\ fn = "calculate_calorie_goal_for_goal"
    /\ args.health_goal = "WEIGHT_LOSS"
    /\ args.tdee = 2555
    /\ ret = Return(2555)

----------------------------------------------------------------------------
(* Properties of calculate_bmr *)

\* C3: calculate_bmr returns 10*weight + 6.25*height - 5*age + c, with c = 5
\* for a male gender, c = -161 for a female gender and c = -78 (the mean of
\* the two) for every other gender string.
C3_BmrFormula ==
    fn = "calculate_bmr" =>
        LET w == args.weight_kg
            h == args.height_cm
            g == args.gender
            c == IF g \in {"male", "m", "M", "MALE"} THEN 5
                 ELSE IF g \in {"female", "f", "F", "FEMALE"} THEN -161
                 ELSE -78
            \* the expected value, as a fraction over 4 * w[2] * h[2]
            num == 40 * w[1] * h[2] + 25 * h[1] * w[2]
                     + 4 * (c - 5 * args.age) * w[2] * h[2]
            den == 4 * w[2] * h[2]
        IN  /\ ret.kind = "return"
            /\ ret.val[1] * den = num * ret.val[2]

\* an unspecified gender at 70 kg, 175 cm, 30 years: 1565.75
C3_Witness ==
    /\ fn = "calculate_bmr"
    /\ args = [weight_kg |-> I(70), height_cm |-> I(175), age |-> 30, gender |-> "O"]
    /\ ret = Return(R(6263, 4))

----------------------------------------------------------------------------
(* Properties of calculate_tdee *)

\* C4: calculate_tdee returns BMR x multiplier truncated toward zero, for
\* negative products as well; calculate_tdee(70, 175, 30, 'male', 'moderate')
\* is 2555.
C4_TdeeTruncatesTowardZero ==
    fn = "calculate_tdee" =>
        LET bmr == calculate_bmr(args.weight_kg, args.height_cm, args.age, args.gender)
            m == DictGet(activity_multipliers, lower(args.activity_level), R(155, 100))
            x == RMul(bmr.val, m.val)
            t == ret.val
        IN  /\ ret.kind = "return"
            /\ x[1] >= 0 => (t * x[2] <= x[1] /\ x[1] < (t + 1) * x[2])
            /\ x[1] < 0 => ((t - 1) * x[2] < x[1] /\ x[1] <= t * x[2])
            /\ args = [weight_kg |-> I(70), height_cm |-> I(175), age |-> 30,
                       gender |-> "male", activity_level |-> "moderate"]
                   => t = 2555

\* a negative product that is no integer: -145 * 1.55 = -224.75 gives -224
C4_Witness ==
    /\ fn = "calculate_tdee"
    /\ args = [weight_kg |-> I(0), height_cm |-> I(0), age |-> 30,
               gender |-> "male", activity_level |-> "moderate"]
    /\ ret = Return(-224)

\* C5: calculate_tdee returns BMR x multiplier rounded to the nearest integer
\* (the Returns line of its docstring).
C5_TdeeRoundsToNearest ==
    fn = "calculate_tdee" =>
        LET bmr == calculate_bmr(args.weight_kg, args.height_cm, args.age, args.gender)
            m == DictGet(activity_multipliers, lower(args.activity_level), R(155, 100))
            x == RMul(bmr.val, m.val)
        IN  /\ ret.kind = "return"
            /\ 2 * Abs(ret.val * x[2] - x[1]) <= x[2]

\* C6: the multiplier is 1.2 / 1.375 / 1.55 / 1.725 / 1.9 for sedentary /
\* light / moderate / active / very_active in any letter case, and every
\* other activity string gives the TDEE that 'moderate' gives on the same
\* other arguments.
C6_ActivityMultipliers ==
    fn = "calculate_tdee" =>
        LET l == args.activity_level
            known == {"sedentary", "SEDENTARY", "light", "Light", "moderate",
                      "active", "very_active", "Very_Active"}
            m == CASE l \in {"sedentary", "SEDENTARY"} -> R(12, 10)
                   [] l \in {"light", "Light"} -> R(1375, 1000)
                   [] l = "active" -> R(1725, 1000)
                   [] l \in {"very_active", "Very_Active"} -> R(19, 10)
                   [] OTHER -> R(155, 100)
            bmr == calculate_bmr(args.weight_kg, args.height_cm, args.age, args.gender)
        IN  /\ ret = Return(PyInt(RMul(bmr.val, m)))
            /\ l \notin known =>
                   ret = calculate_tdee(args.weight_kg, args.height_cm, args.age,
                                        args.gender, "moderate")

\* a mixed-case key takes its own multiplier: 1648.75 * 1.9 = 3132.625
C6_Witness ==
    /\ fn = "calculate_tdee"
    /\ args = [weight_kg |-> I(70), height_cm |-> I(175), age |-> 30,
               gender |-> "male", activity_level |-> "Very_Active"]
    /\ ret = Return(3132)

----------------------------------------------------------------------------
(* Errors *)

\* C7: calculate_bmi with height_cm = 0 raises an error to the caller; it
\* returns no number.
C7_ZeroHeightRaises ==
    (fn = "calculate_bmi" /\ args.height_cm = I(0)) => ret.kind = "raise"

\* the division by zero of line 97 reaches the caller
C7_Witness ==
    /\ fn = "calculate_bmi"
    /\ args = [weight_kg |-> I(70), height_cm |-> I(0)]
    /\ ret = Raise("ZeroDivisionError")

----------------------------------------------------------------------------
(* Properties of get_bmi_category and calculate_bmi *)

\* C9: get_bmi_category gives 'Underweight' below 18.5, 'Normal weight' from
\* 18.5 to below 25, 'Overweight' from 25 to below 30 and 'Obese' from 30 on.
C9_BmiCategoryPartition ==
    fn = "get_bmi_category" =>
        LET n == args.bmi[1]
            d == args.bmi[2]
        IN  /\ ret.kind = "return"
            /\ ret.val = "Underweight" <=> 2 * n < 37 * d
            /\ ret.val = "Normal weight" <=> (37 * d <= 2 * n /\ n < 25 * d)
            /\ ret.val = "Overweight" <=> (25 * d <= n /\ n < 30 * d)
            /\ ret.val = "Obese" <=> 30 * d <= n

\* the boundary 18.5 belongs to 'Normal weight'
C9_Witness ==
    /\ fn = "get_bmi_category"
    /\ args.bmi = R(185, 10)
    /\ ret = Return("Normal weight")

\* C10: for a non-zero height calculate_bmi returns the multiple of 0.1
\* nearest to weight_kg / (height_cm/100)^2; calculate_bmi(70, 175) is 22.9.
C10_BmiRoundedToOneDecimal ==
    (fn = "calculate_bmi" /\ args.height_cm # I(0)) =>
        LET w == args.weight_kg
            h == args.height_cm
            x == R(w[1] * 10000 * h[2] * h[2], w[2] * h[1] * h[1])
            r == ret.val
        IN  /\ ret.kind = "return"
            /\ 10 % r[2] = 0
            /\ 20 * Abs(r[1] * x[2] - x[1] * r[2]) <= r[2] * x[2]
            /\ args = [weight_kg |-> I(70), height_cm |-> I(175)] => r = R(229, 10)

\* 70 / 1.75^2 = 22.857... comes out as 22.9
C10_Witness ==
    /\ fn = "calculate_bmi"
    /\ args = [weight_kg |-> I(70), height_cm |-> I(175)]
    /\ ret = Return(R(229, 10))

----------------------------------------------------------------------------
(* Properties of calculate_macros and calculate_nutrition_percentage *)

\* C11: with no ratio supplied calculate_macros returns the multiples of 0.1
\* nearest to goal*0.30/4 (protein), goal*0.40/4 (carbs) and goal*0.30/9
\* (fat); calculate_macros(2000) is 150.0, 200.0, 66.7.
C11_DefaultMacros ==
    (fn = "calculate_macros" /\ args.macro_ratio = PyNone) =>
        LET g == args.calorie_goal
            \* r is the multiple of 0.1 nearest to n / d
            Nearest(r, n, d) ==
                /\ 10 % r[2] = 0
                /\ 20 * Abs(r[1] * d - n * r[2]) <= r[2] * d
        IN  /\ ret.kind = "return"
            /\ Nearest(ret.val.protein_g, 30 * g, 400)
            /\ Nearest(ret.val.carbs_g, 40 * g, 400)
            /\ Nearest(ret.val.fat_g, 30 * g, 900)
            /\ g = 2000 =>
                   ret.val = [protein_g |-> I(150), carbs_g |-> I(200),
                              fat_g |-> R(667, 10)]

\* calculate_macros(2000)
C11_Witness ==
    /\ fn = "calculate_macros"
    /\ args = [calorie_goal |-> 2000, macro_ratio |-> PyNone]
    /\ ret = Return([protein_g |-> I(150), carbs_g |-> I(200), fat_g |-> R(667, 10)])

\* C12: a ratio mapping that gives only some of protein, carbs, fat is
\* accepted: the call returns, and a fraction that is not supplied takes its
\* default (0.30, 0.40, 0.30).
C12_PartialRatioTakesDefaults ==
    (/\ fn = "calculate_macros"
     /\ args.macro_ratio # PyNone
     /\ DOMAIN args.macro_ratio # {"protein", "carbs", "fat"}) =>
        LET g == args.calorie_goal
            m == args.macro_ratio
            Fraction(k, default) == IF k \in DOMAIN m THEN m[k] ELSE default
            p == Fraction("protein", R(3, 10))
            c == Fraction("carbs", R(4, 10))
            f == Fraction("fat", R(3, 10))
            Nearest(r, n, d) ==
                /\ 10 % r[2] = 0
                /\ 20 * Abs(r[1] * d - n * r[2]) <= r[2] * d
        IN  /\ ret.kind = "return"
            /\ Nearest(ret.val.protein_g, g * p[1], 4 * p[2])
            /\ Nearest(ret.val.carbs_g, g * c[1], 4 * c[2])
            /\ Nearest(ret.val.fat_g, g * f[1], 9 * f[2])

\* C13: for every mapping that gives the three fractions, whatever their sum,
\* calculate_macros returns, and each gram figure is the multiple of 0.1
\* nearest to goal * (its own fraction) / (its calories per gram).
C13_FractionsPassThrough ==
    (/\ fn = "calculate_macros"
     /\ DOMAIN args.macro_ratio = {"protein", "carbs", "fat"}) =>
        LET g == args.calorie_goal
            p == args.macro_ratio.protein
            c == args.macro_ratio.carbs
            f == args.macro_ratio.fat
            Nearest(r, n, d) ==
                /\ 10 % r[2] = 0
                /\ 20 * Abs(r[1] * d - n * r[2]) <= r[2] * d
        IN  /\ ret.kind = "return"
            /\ Nearest(ret.val.protein_g, g * p[1], 4 * p[2])
            /\ Nearest(ret.val.carbs_g, g * c[1], 4 * c[2])
            /\ Nearest(ret.val.fat_g, g * f[1], 9 * f[2])

\* three fractions of sum 1.5 on a goal of 2000
C13_Witness ==
    /\ fn = "calculate_macros"
    /\ args = [calorie_goal |-> 2000,
               macro_ratio |-> [protein |-> R(1, 2), carbs |-> R(1, 2), fat |-> R(1, 2)]]
    /\ ret = Return([protein_g |-> I(250), carbs_g |-> I(250), fat_g |-> R(1111, 10)])

\* C14: calculate_nutrition_percentage returns 0.0 when goal is 0, whatever
\* consumed is, and for every other goal the multiple of 0.1 nearest to
\* (consumed / goal) * 100.
C14_PercentageGuardsZeroGoal ==
    fn = "calculate_nutrition_percentage" =>
        LET c == args.consumed
            g == args.goal
            r == ret.val
        IN  /\ ret.kind = "return"
            /\ g = I(0) => r = I(0)
            /\ g # I(0) =>
                   /\ 10 % r[2] = 0
                   /\ 20 * Abs(r[1] * c[2] * g[1] - 100 * c[1] * g[2] * r[2])
                          <= r[2] * Abs(c[2] * g[1])

\* a negative consumed against a goal of 0
C14_Witness ==
    /\ fn = "calculate_nutrition_percentage"
    /\ args = [consumed |-> I(-50), goal |-> I(0)]
    /\ ret = Return(I(0))

----------------------------------------------------------------------------
(* Relations between calls of calculate_bmr *)

\* C15: 'male', 'MALE', 'm' and 'M' all give what 'male' gives, and 'female',
\* 'FEMALE', 'f' and 'F' all give what 'female' gives, on the same weight,
\* height and age.
C15_GenderIgnoresCaseAndLength ==
    fn = "calculate_bmr" =>
        LET male == calculate_bmr(args.weight_kg, args.height_cm, args.age, "male")
            female == calculate_bmr(args.weight_kg, args.height_cm, args.age, "female")
        IN  /\ male # female
            /\ args.gender \in {"male", "MALE", "m", "M"} => ret = male
            /\ args.gender \in {"female", "FEMALE", "f", "F"} => ret = female

\* the single capital letter 'M' at 70 kg, 175 cm, 30 years: 1648.75
C15_Witness ==
    /\ fn = "calculate_bmr"
    /\ args = [weight_kg |-> I(70), height_cm |-> I(175), age |-> 30, gender |-> "M"]
    /\ ret = Return(R(6595, 4))

\* C16: with the other arguments fixed, calculate_bmr gives more for a larger
\* weight_kg, more for a larger height_cm and less for a larger age, in each
\* of the three gender branches.
C16_BmrMonotone ==
    fn = "calculate_bmr" =>
        LET w == args.weight_kg
            h == args.height_cm
            a == args.age
            g == args.gender
        IN  /\ ret.kind = "return"
            /\ \A w2 \in Weights :
                   RLt(w, w2) => RLt(ret.val, calculate_bmr(w2, h, a, g).val)
            /\ \A h2 \in Heights :
                   RLt(h, h2) => RLt(ret.val, calculate_bmr(w, h2, a, g).val)
            /\ \A a2 \in Ages :
                   a < a2 => RLt(calculate_bmr(w, h, a2, g).val, ret.val)

\* the unspecified branch, with larger weights, heights and ages to compare to
C16_Witness ==
    /\ fn = "calculate_bmr"
    /\ args = [weight_kg |-> I(70), height_cm |-> I(175), age |-> 30, gender |-> "O"]
    /\ \E w2 \in Weights : RLt(args.weight_kg, w2)
    /\ \E h2 \in Heights : RLt(args.height_cm, h2)
    /\ \E a2 \in Ages : args.age < a2

----------------------------------------------------------------------------
(* Properties of calculate_ideal_weight_range and calculate_water_goal *)

\* C17: calculate_ideal_weight_range returns the multiples of 0.1 nearest to
\* 18.5 * (height_cm/100)^2 and 24.9 * (height_cm/100)^2, and every gender
\* string gives the same result for the same height.
C17_IdealWeightIgnoresGender ==
    fn = "calculate_ideal_weight_range" =>
        LET h == args.height_cm
            Nearest(r, n, d) ==
                /\ 10 % r[2] = 0
                /\ 20 * Abs(r[1] * d - n * r[2]) <= r[2] * d
        IN  /\ ret.kind = "return"
            /\ Nearest(ret.val.min_weight, 185 * h[1] * h[1], 100000 * h[2] * h[2])
            /\ Nearest(ret.val.max_weight, 249 * h[1] * h[1], 100000 * h[2] * h[2])
            /\ \A g2 \in Genders : calculate_ideal_weight_range(h, g2) = ret

\* 175 cm with a female gender: 56.7 to 76.3 kg
C17_Witness ==
    /\ fn = "calculate_ideal_weight_range"
    /\ args = [height_cm |-> I(175), gender |-> "female"]
    /\ ret = Return([min_weight |-> R(567, 10), max_weight |-> R(763, 10)])

\* C18 as claimed: for every height_cm > 0, calculate_bmi of min_weight and of
\* max_weight at that height is within 0.1 of 18.5 and of 24.9.
C18_RoundTripEveryHeight ==
    (fn = "calculate_ideal_weight_range" /\ RLt(I(0), args.height_cm)) =>
        LET lo == calculate_bmi(ret.val.min_weight, args.height_cm)
            hi == calculate_bmi(ret.val.max_weight, args.height_cm)
        IN  /\ lo.kind = "return"
            /\ hi.kind = "return"
            /\ RLe(R(184, 10), lo.val) /\ RLe(lo.val, R(186, 10))
            /\ RLe(R(248, 10), hi.val) /\ RLe(hi.val, R(250, 10))

\* C18 as amended: for every height_cm >= 100, calculate_bmi of min_weight and
\* of max_weight at that height is within 0.1 of 18.5 and of 24.9.
C18_RoundTripFrom100 ==
    (fn = "calculate_ideal_weight_range" /\ RLe(I(100), args.height_cm)) =>
        LET lo == calculate_bmi(ret.val.min_weight, args.height_cm)
            hi == calculate_bmi(ret.val.max_weight, args.height_cm)
        IN  /\ lo.kind = "return"
            /\ hi.kind = "return"
            /\ RLe(R(184, 10), lo.val) /\ RLe(lo.val, R(186, 10))
            /\ RLe(R(248, 10), hi.val) /\ RLe(hi.val, R(250, 10))

\* 175.5 cm: 57.0 and 76.7 kg give back 18.5 and 24.9
C18_Witness ==
    /\ fn = "calculate_ideal_weight_range"
    /\ args.height_cm = R(351, 2)
    /\ ret = Return([min_weight |-> I(57), max_weight |-> R(767, 10)])
    /\ calculate_bmi(ret.val.min_weight, args.height_cm) = Return(R(185, 10))
    /\ calculate_bmi(ret.val.max_weight, args.height_cm) = Return(R(249, 10))

\* C19: calculate_water_goal returns the multiple of 0.1 nearest to
\* weight_kg * 0.033, below 0.5 and above 10 as well; calculate_water_goal(70)
\* is 2.3.
C19_WaterGoalUnclamped ==
    fn = "calculate_water_goal" =>
        LET w == args.weight_kg
            r == ret.val
        IN  /\ ret.kind = "return"
            /\ 10 % r[2] = 0
            /\ 20 * Abs(r[1] * 1000 * w[2] - 33 * w[1] * r[2]) <= r[2] * 1000 * w[2]
            /\ w = I(70) => r = R(23, 10)

\* 70 * 0.033 = 2.31 comes out as 2.3
C19_Witness ==
    /\ fn = "calculate_water_goal"
    /\ args = [weight_kg |-> I(70)]
    /\ ret = Return(R(23, 10))

----------------------------------------------------------------------------
(* Concurrent calls of the engine.
   Each thread runs one call at a time in a frame of its own: the arguments,
   the local names bound so far and the line reached.  The three functions
   that build or read a dict run line by line, so that the lines of two
   calls interleave; the other six compute on their arguments alone and
   run in one step.  A ratio mapping is passed by reference: it lives in
   heap, where every thread can reach it. *)

\* the mapping a macro_ratio name is bound to: the dict built by the call
\* itself, or the caller's
Deref(h, name) == IF "own" \in DOMAIN name THEN name.own ELSE h[name.ref]

\* one line of calculate_tdee
calculate_tdee_step(f) ==
    CASE f.pc = "bmr" ->
           LET bmr == calculate_bmr(f.args.weight_kg, f.args.height_cm, f.args.age,
                                    f.args.gender)
           IN  [f EXCEPT !.pc = "activity_multipliers", !.locals = [bmr |-> bmr.val]]
      [] f.pc = "activity_multipliers" ->
           [f EXCEPT !.pc = "multiplier",
                     !.locals = [bmr |-> f.locals.bmr,
                                 activity_multipliers |-> activity_multipliers]]
      [] f.pc = "multiplier" ->
           LET multiplier == DictGet(f.locals.activity_multipliers,
                                     lower(f.args.activity_level), R(155, 100))
           IN  [f EXCEPT !.pc = "tdee",
                         !.locals = [bmr |-> f.locals.bmr,
                                     activity_multipliers |-> f.locals.activity_multipliers,
                                     multiplier |-> multiplier.val]]
      [] f.pc = "tdee" ->
           LET tdee == RMul(f.locals.bmr, f.locals.multiplier)
           IN  [f EXCEPT !.pc = "returned", !.ret = Return(PyInt(tdee))]

\* one line of calculate_calorie_goal_for_goal
calculate_calorie_goal_for_goal_step(f) ==
    CASE f.pc = "goal_adjustments" ->
           [f EXCEPT !.pc = "adjustment",
                     !.locals = [goal_adjustments |-> goal_adjustments]]
      [] f.pc = "adjustment" ->
           LET adjustment == DictGet(f.locals.goal_adjustments, f.args.health_goal, 0)
           IN  [f EXCEPT !.pc = "calorie_goal",
                         !.locals = [goal_adjustments |-> f.locals.goal_adjustments,
                                     adjustment |-> adjustment.val]]
      [] f.pc = "calorie_goal" ->
           LET calorie_goal == f.args.tdee + f.locals.adjustment
           IN  [f EXCEPT !.pc = "returned", !.ret = Return(PyMax(1200, calorie_goal))]

\* a variant of calculate_macros_default that completes the caller's mapping
\* in place with the default fractions (macro_ratio.setdefault)
calculate_macros_default_setdefault(f, h) ==
    LET default == [protein |-> R(3, 10), carbs |-> R(4, 10), fat |-> R(3, 10)]
        bound == IF f.args.macro_ratio = PyNone THEN [own |-> default]
                 ELSE f.args.macro_ratio
    IN  [frame |-> [f EXCEPT !.pc = "protein_calories",
                             !.locals = [macro_ratio |-> bound,
                                         protein_calories |-> PyNone,
                                         carbs_calories |-> PyNone,
                                         fat_calories |-> PyNone]],
         heap |-> IF f.args.macro_ratio = PyNone THEN h
                  ELSE [h EXCEPT ![f.args.macro_ratio.ref] =
                           [k \in DOMAIN default |->
                               IF k \in DOMAIN h[f.args.macro_ratio.ref]
                               THEN h[f.args.macro_ratio.ref][k] ELSE default[k]]]]

\* the first lines of calculate_macros: without a mapping from the caller the
\* name macro_ratio is bound to a new dict, which no other call can reach
calculate_macros_default(f, h) ==
    LET bound == IF f.args.macro_ratio = PyNone
                 THEN [own |-> [protein |-> R(3, 10), carbs |-> R(4, 10),
                                fat |-> R(3, 10)]]
                 ELSE f.args.macro_ratio
    IN  [frame |-> [f EXCEPT !.pc = "protein_calories",
                             !.locals = [macro_ratio |-> bound,
                                         protein_calories |-> PyNone,
                                         carbs_calories |-> PyNone,
                                         fat_calories |-> PyNone]],
         heap |-> h]

\* one line of calculate_macros: the frame it leaves and the heap it leaves
calculate_macros_step(f, h) ==
    LET ratio == Deref(h, f.locals.macro_ratio)
        read(key, pc, name) ==
            LET fraction == DictItem(ratio, key)
            IN  IF fraction.kind = "raise"
                THEN [f EXCEPT !.pc = "returned", !.ret = fraction]
                ELSE [f EXCEPT !.pc = pc,
                               !.locals = [f.locals EXCEPT
                                   ![name] = RMul(I(f.args.calorie_goal), fraction.val)]]
    IN  CASE f.pc = "macro_ratio" -> calculate_macros_default(f, h)
          [] f.pc = "protein_calories" ->
               [frame |-> read("protein", "carbs_calories", "protein_calories"), heap |-> h]
          [] f.pc = "carbs_calories" ->
               [frame |-> read("carbs", "fat_calories", "carbs_calories"), heap |-> h]
          [] f.pc = "fat_calories" ->
               [frame |-> read("fat", "grams", "fat_calories"), heap |-> h]
          [] f.pc = "grams" ->
               LET protein_g == RDiv(f.locals.protein_calories, I(4))
                   carbs_g == RDiv(f.locals.carbs_calories, I(4))
                   fat_g == RDiv(f.locals.fat_calories, I(9))
               IN  [frame |-> [f EXCEPT !.pc = "returned",
                                        !.ret = Return([protein_g |-> PyRound1(protein_g),
                                                        carbs_g |-> PyRound1(carbs_g),
                                                        fat_g |-> PyRound1(fat_g)])],
                    heap |-> h]

\* the arguments of the concurrent calls
ThreadWeights == {I(70), I(95)}
ThreadAges == {30, 60}
ThreadGenders == {"M", "female", "O"}
ThreadActivities == {"moderate", "Very_Active", "extreme"}
ThreadTdees == {1500, 2000, 2555}
ThreadHealthGoals == {"weight_loss", "muscle_gain", "keto"}
ThreadCalorieGoals == {2000, 2500}
\* no mapping, or a reference to one of the caller's
ThreadRatios == {PyNone} \cup {[ref |-> m] : m \in DOMAIN CallerMappings}

thread_call_calculate_tdee ==
    \E t \in Threads, w \in ThreadWeights, a \in ThreadAges, g \in ThreadGenders,
       l \in ThreadActivities :
        /\ frames[t] = NoFrame
        /\ frames' = [frames EXCEPT ![t] =
               [NoFrame EXCEPT !.fn = "calculate_tdee", !.pc = "bmr",
                               !.args = [weight_kg |-> w, height_cm |-> I(175),
                                         age |-> a, gender |-> g,
                                         activity_level |-> l]]]
        /\ heap' = heap
        /\ UNCHANGED <<fn, args, ret, site_vars>>

thread_step_calculate_tdee ==
    \E t \in Threads :
        /\ frames[t].fn = "calculate_tdee"
        /\ frames[t].pc # "returned"
        /\ frames' = [frames EXCEPT ![t] = calculate_tdee_step(frames[t])]
        /\ heap' = heap
        /\ UNCHANGED <<fn, args, ret, site_vars>>

thread_call_calculate_calorie_goal_for_goal ==
    \E t \in Threads, td \in ThreadTdees, g \in ThreadHealthGoals :
        /\ frames[t] = NoFrame
        /\ frames' = [frames EXCEPT ![t] =
               [NoFrame EXCEPT !.fn = "calculate_calorie_goal_for_goal",
                               !.pc = "goal_adjustments",
                               !.args = [tdee |-> td, health_goal |-> g]]]
        /\ heap' = heap
        /\ UNCHANGED <<fn, args, ret, site_vars>>

thread_step_calculate_calorie_goal_for_goal ==
    \E t \in Threads :
        /\ frames[t].fn = "calculate_calorie_goal_for_goal"
        /\ frames[t].pc # "returned"
        /\ frames' = [frames EXCEPT ![t] = calculate_calorie_goal_for_goal_step(frames[t])]
        /\ heap' = heap
        /\ UNCHANGED <<fn, args, ret, site_vars>>

thread_call_calculate_macros ==
    \E t \in Threads, c \in ThreadCalorieGoals, m \in ThreadRatios :
        /\ frames[t] = NoFrame
        /\ frames' = [frames EXCEPT ![t] =
               [NoFrame EXCEPT !.fn = "calculate_macros", !.pc = "macro_ratio",
                               !.args = [calorie_goal |-> c, macro_ratio |-> m]]]
        /\ heap' = heap
        /\ UNCHANGED <<fn, args, ret, site_vars>>

thread_step_calculate_macros ==
    \E t \in Threads :
        /\ frames[t].fn = "calculate_macros"
        /\ frames[t].pc # "returned"
        /\ LET after == calculate_macros_step(frames[t], heap)
           IN  /\ frames' = [frames EXCEPT ![t] = after.frame]
               /\ heap' = after.heap
        /\ UNCHANGED <<fn, args, ret, site_vars>>

thread_call_calculate_bmr ==
    \E t \in Threads, w \in ThreadWeights, a \in ThreadAges, g \in ThreadGenders :
        /\ frames[t] = NoFrame
        /\ frames' = [frames EXCEPT ![t] =
               [NoFrame EXCEPT !.fn = "calculate_bmr", !.pc = "returned",
                               !.args = [weight_kg |-> w, height_cm |-> I(175),
                                         age |-> a, gender |-> g],
                               !.ret = calculate_bmr(w, I(175), a, g)]]
        /\ heap' = heap
        /\ UNCHANGED <<fn, args, ret, site_vars>>

thread_call_calculate_bmi ==
    \E t \in Threads, w \in ThreadWeights, h \in {I(0), I(175)} :
        /\ frames[t] = NoFrame
        /\ frames' = [frames EXCEPT ![t] =
               [NoFrame EXCEPT !.fn = "calculate_bmi", !.pc = "returned",
                               !.args = [weight_kg |-> w, height_cm |-> h],
                               !.ret = calculate_bmi(w, h)]]
        /\ heap' = heap
        /\ UNCHANGED <<fn, args, ret, site_vars>>

thread_call_get_bmi_category ==
    \E t \in Threads, b \in {R(185, 10), I(25), I(31)} :
        /\ frames[t] = NoFrame
        /\ frames' = [frames EXCEPT ![t] =
               [NoFrame EXCEPT !.fn = "get_bmi_category", !.pc = "returned",
                               !.args = [bmi |-> b],
                               !.ret = get_bmi_category(b)]]
        /\ heap' = heap
        /\ UNCHANGED <<fn, args, ret, site_vars>>

thread_call_calculate_water_goal ==
    \E t \in Threads, w \in ThreadWeights :
        /\ frames[t] = NoFrame
        /\ frames' = [frames EXCEPT ![t] =
               [NoFrame EXCEPT !.fn = "calculate_water_goal", !.pc = "returned",
                               !.args = [weight_kg |-> w],
                               !.ret = calculate_water_goal(w)]]
        /\ heap' = heap
        /\ UNCHANGED <<fn, args, ret, site_vars>>

thread_call_calculate_ideal_weight_range ==
    \E t \in Threads, h \in {I(150), I(175)}, g \in ThreadGenders :
        /\ frames[t] = NoFrame
        /\ frames' = [frames EXCEPT ![t] =
               [NoFrame EXCEPT !.fn = "calculate_ideal_weight_range", !.pc = "returned",
                               !.args = [height_cm |-> h, gender |-> g],
                               !.ret = calculate_ideal_weight_range(h, g)]]
        /\ heap' = heap
        /\ UNCHANGED <<fn, args, ret, site_vars>>

thread_call_calculate_nutrition_percentage ==
    \E t \in Threads, c \in {I(0), I(500)}, g \in {I(0), I(2000)} :
        /\ frames[t] = NoFrame
        /\ frames' = [frames EXCEPT ![t] =
               [NoFrame EXCEPT !.fn = "calculate_nutrition_percentage", !.pc = "returned",
                               !.args = [consumed |-> c, goal |-> g],
                               !.ret = calculate_nutrition_percentage(c, g)]]
        /\ heap' = heap
        /\ UNCHANGED <<fn, args, ret, site_vars>>

\* the caller of thread t takes the outcome; the frame is gone
thread_return ==
    \E t \in Threads :
        /\ frames[t].pc = "returned"
        /\ frames' = [frames EXCEPT ![t] = NoFrame]
        /\ heap' = heap
        /\ UNCHANGED <<fn, args, ret, site_vars>>

NextThreads ==
    \/ thread_call_calculate_tdee
    \/ thread_step_calculate_tdee
    \/ thread_call_calculate_calorie_goal_for_goal
    \/ thread_step_calculate_calorie_goal_for_goal
    \/ thread_call_calculate_macros
    \/ thread_step_calculate_macros
    \/ thread_call_calculate_bmr
    \/ thread_call_calculate_bmi
    \/ thread_call_get_bmi_category
    \/ thread_call_calculate_water_goal
    \/ thread_call_calculate_ideal_weight_range
    \/ thread_call_calculate_nutrition_percentage
    \/ thread_return

SpecThreads == Init /\ [][NextThreads]_vars

\* C21: the engine functions share no mutable state.  In every state of
\* every interleaving of the calls of two threads: the mappings the callers
\* own are as the callers made them (calculate_macros leaves a mapping it is
\* given unchanged); the activity-multiplier table and the goal-offset table
\* of every call hold the values the source writes; and a call that has
\* returned has the outcome that the same function has on the same
\* arguments when it runs alone.
C21_NoSharedMutableState ==
    LET Alone(f) ==
            CASE f.fn = "calculate_bmr" ->
                   calculate_bmr(f.args.weight_kg, f.args.height_cm, f.args.age,
                                 f.args.gender)
              [] f.fn = "calculate_tdee" ->
                   calculate_tdee(f.args.weight_kg, f.args.height_cm, f.args.age,
                                  f.args.gender, f.args.activity_level)
              [] f.fn = "calculate_bmi" -> calculate_bmi(f.args.weight_kg, f.args.height_cm)
              [] f.fn = "get_bmi_category" -> get_bmi_category(f.args.bmi)
              [] f.fn = "calculate_calorie_goal_for_goal" ->
                   calculate_calorie_goal_for_goal(f.args.tdee, f.args.health_goal)
              [] f.fn = "calculate_macros" ->
                   calculate_macros(f.args.calorie_goal,
                                    IF f.args.macro_ratio = PyNone THEN PyNone
                                    ELSE CallerMappings[f.args.macro_ratio.ref])
              [] f.fn = "calculate_water_goal" -> calculate_water_goal(f.args.weight_kg)
              [] f.fn = "calculate_ideal_weight_range" ->
                   calculate_ideal_weight_range(f.args.height_cm, f.args.gender)
              [] f.fn = "calculate_nutrition_percentage" ->
                   calculate_nutrition_percentage(f.args.consumed, f.args.goal)
    IN  /\ heap = CallerMappings
        /\ \A t \in Threads :
               /\ "activity_multipliers" \in DOMAIN frames[t].locals
                      => frames[t].locals.activity_multipliers = activity_multipliers
               /\ "goal_adjustments" \in DOMAIN frames[t].locals
                      => frames[t].locals.goal_adjustments = goal_adjustments
               /\ frames[t].pc = "returned" => frames[t].ret = Alone(frames[t])

\* two calls of calculate_macros on the same mapping of the caller: one has
\* returned while the other is between two reads of the mapping; and a call
\* of calculate_tdee has built its table while another reads its own
C21_Witness ==
    \/ /\ frames["t1"].fn = "calculate_macros"
       /\ frames["t1"].pc = "returned"
       /\ frames["t1"].ret.kind = "return"
       /\ frames["t2"].fn = "calculate_macros"
       /\ frames["t2"].pc = "carbs_calories"
       /\ frames["t1"].args.macro_ratio = [ref |-> "m1"]
       /\ frames["t2"].args.macro_ratio = [ref |-> "m1"]
       /\ frames["t1"].args.calorie_goal # frames["t2"].args.calorie_goal
    \/ /\ frames["t1"].fn = "calculate_tdee"
       /\ frames["t1"].pc = "returned"
       /\ frames["t2"].fn = "calculate_tdee"
       /\ frames["t2"].pc = "multiplier"
       /\ frames["t1"].args.activity_level # frames["t2"].args.activity_level

----------------------------------------------------------------------------
(* The profile flow (src/accounts): UserProfile, the onboarding wizard and
   the profile form.  A request is a call: fn is the view, args the request,
   ret the response; profiles holds the rows.  A float field holds a
   rational or None, a str or int that may be None is wrapped (Str, Num), a
   date is a Date. *)

\* bool(x) of a float or None
truthy_float(x) == IF x = PyNone THEN FALSE ELSE ~RIsZero(x)

\* bool(x) of a str, an int, a date or None
truthy(x) ==
    IF x = PyNone THEN FALSE
    ELSE IF "str" \in DOMAIN x THEN x.str # ""
    ELSE IF "int" \in DOMAIN x THEN x.int # 0
    ELSE TRUE

\* float(x) of a POST value: a str or None
float(x) ==
    IF x = PyNone THEN Raise("TypeError")
    ELSE CASE x.str = "0" -> Return(I(0))
           [] x.str = "70" -> Return(I(70))
           [] x.str = "70.5" -> Return(R(141, 2))
           [] x.str = "175" -> Return(I(175))
           [] x.str = "300" -> Return(I(300))
           [] OTHER -> Raise("ValueError")

\* UserProfile.age, on the day today: None without a date of birth; a str
\* has no attribute year
age(self, today) ==
    IF ~truthy(self.date_of_birth) THEN Return(PyNone)
    ELSE IF "str" \in DOMAIN self.date_of_birth THEN Raise("AttributeError")
    ELSE LET dob == self.date_of_birth
             before == \/ today.month < dob.month
                       \/ today.month = dob.month /\ today.day < dob.day
         IN  Return(Num(today.year - dob.year - (IF before THEN 1 ELSE 0)))

\* a variant of gender_for_calculation that hands the stored gender on
gender_for_calculation_as_stored(self) ==
    IF self.gender = PyNone THEN "" ELSE self.gender.str

\* UserProfile.gender_for_calculation
gender_for_calculation(self) == IF self.gender = Str("M") THEN "male" ELSE "female"

\* a variant of calculate_and_save_goals that saves the profile as soon as
\* the BMI is set, before the age is read
calculate_and_save_goals_saves_first(self, today) ==
    LET set_fields(bmi, a) ==
            IF bmi.kind = "raise" THEN [outcome |-> bmi, self |-> self, saved |-> FALSE]
            ELSE [outcome |-> IF a.kind = "raise" THEN a ELSE Return(TRUE),
                  self |-> [self EXCEPT !.bmi = bmi.val],
                  saved |-> TRUE]
    IN  IF ~(/\ truthy_float(self.weight_kg) /\ truthy_float(self.height_cm)
             /\ truthy(self.date_of_birth) /\ truthy(self.activity_level))
        THEN [outcome |-> Return(FALSE), self |-> self, saved |-> FALSE]
        ELSE set_fields(calculate_bmi(self.weight_kg, self.height_cm), age(self, today))

\* UserProfile.calculate_and_save_goals, on the day today: what it returns or
\* raises, the object it leaves, and whether self.save() wrote that object
calculate_and_save_goals(self, today) ==
    LET \* goal_adjustments.get(None, 0) finds no key
        health_goal == IF self.health_goal = PyNone THEN "None" ELSE self.health_goal.str
        goal_for(tdee) == calculate_calorie_goal_for_goal(tdee.val, health_goal)
        tdee_at(a) == calculate_tdee(self.weight_kg, self.height_cm, a.val.int,
                                     gender_for_calculation(self), self.activity_level.str)
        set_fields(bmi, a, water) ==
            IF bmi.kind = "raise" THEN [outcome |-> bmi, self |-> self, saved |-> FALSE]
            ELSE IF a.kind = "raise"
            THEN [outcome |-> a, self |-> [self EXCEPT !.bmi = bmi.val], saved |-> FALSE]
            ELSE [outcome |-> Return(TRUE),
                  self |-> [self EXCEPT
                               !.bmi = bmi.val,
                               !.daily_calorie_goal =
                                   IF truthy(a.val) THEN Num(goal_for(tdee_at(a)).val) ELSE @,
                               !.water_goal_liters = water.val],
                  saved |-> TRUE]
    IN  IF ~(/\ truthy_float(self.weight_kg) /\ truthy_float(self.height_cm)
             /\ truthy(self.date_of_birth) /\ truthy(self.activity_level))
        THEN [outcome |-> Return(FALSE), self |-> self, saved |-> FALSE]
        ELSE set_fields(calculate_bmi(self.weight_kg, self.height_cm), age(self, today),
                        calculate_water_goal(self.weight_kg))

\* onboarding_wizard: the row it leaves and its response, which notes what
\* calculate_and_save_goals did in this request, if it was called
onboarding_wizard(row, method, POST, today) ==
    LET not_called == [kind |-> "none", val |-> "none"]
        end(r, status, message, goals) ==
            [profile |-> r,
             response |-> [status |-> status, message |-> message,
                           calculate_and_save_goals |-> goals]]
        respond(goals) ==
            IF goals.outcome.kind = "raise"
            THEN end(IF goals.saved THEN goals.self ELSE row, "render",
                     "Error saving profile", goals.outcome)
            ELSE IF goals.outcome.val
            THEN end([goals.self EXCEPT !.is_onboarding_complete = TRUE], "redirect",
                     "Welcome!", goals.outcome)
            ELSE end(IF goals.saved THEN goals.self ELSE row, "render",
                     "Please fill in all required fields.", goals.outcome)
        assign(weight_kg, height_cm) ==
            IF weight_kg.kind = "raise" \/ height_cm.kind = "raise"
            THEN end(row, "render", "Error saving profile", not_called)
            ELSE respond(calculate_and_save_goals(
                             [row EXCEPT !.weight_kg = weight_kg.val,
                                         !.height_cm = height_cm.val,
                                         !.date_of_birth = POST.date_of_birth,
                                         !.gender = POST.gender,
                                         !.activity_level = POST.activity_level,
                                         !.health_goal = POST.health_goal],
                             today))
    IN  IF row.is_onboarding_complete
        THEN end(row, "redirect", "You have already completed onboarding!", not_called)
        ELSE IF method # "POST" THEN end(row, "render", "", not_called)
        ELSE assign(float(POST.weight_kg), float(POST.height_cm))

\* UserProfileEditForm.is_valid on the values the fields parse to: the
\* validators and choices of the model fields; an empty optional field is None
UserProfileEditForm_is_valid(data) ==
    /\ \/ data.weight_kg = PyNone
       \/ RLe(I(20), data.weight_kg) /\ RLe(data.weight_kg, I(300))
    /\ \/ data.height_cm = PyNone
       \/ RLe(I(100), data.height_cm) /\ RLe(data.height_cm, I(250))
    /\ data.gender \in {Str("M"), Str("F"), Str("O")}
    /\ data.activity_level \in
           {Str("sedentary"), Str("light"), Str("moderate"), Str("active"),
            Str("very_active")}
    /\ data.health_goal \in
           {Str("weight_loss"), Str("weight_gain"), Str("maintain"), Str("muscle_gain"),
            Str("general_health")}
    /\ \/ data.daily_calorie_goal = PyNone
       \/ 1200 <= data.daily_calorie_goal.int /\ data.daily_calorie_goal.int <= 5000
    /\ RLe(R(1, 2), data.water_goal_liters) /\ RLe(data.water_goal_liters, I(10))

\* UserProfileEditForm.save(commit=True): the row it leaves, and what
\* calculate_and_save_goals did, if it was called
UserProfileEditForm_save(row, data, today) ==
    LET profile == [row EXCEPT !.weight_kg = data.weight_kg,
                               !.height_cm = data.height_cm,
                               !.date_of_birth = data.date_of_birth,
                               !.gender = data.gender,
                               !.activity_level = data.activity_level,
                               !.health_goal = data.health_goal,
                               !.daily_calorie_goal = data.daily_calorie_goal,
                               !.water_goal_liters = data.water_goal_liters]
        recalculated(goals) ==
            [profile |-> IF goals.saved THEN goals.self ELSE profile,
             goals |-> goals.outcome]
    IN  IF ~truthy(data.daily_calorie_goal)
        THEN recalculated(calculate_and_save_goals(profile, today))
        ELSE [profile |-> profile, goals |-> [kind |-> "none", val |-> "none"]]

\* profile_edit_view: the row it leaves and its response
profile_edit_view(row, method, data, today) ==
    LET not_called == [kind |-> "none", val |-> "none"]
        updated(saved) ==
            [profile |-> saved.profile,
             response |-> [status |-> "redirect",
                           message |-> "Your profile has been updated successfully!",
                           calculate_and_save_goals |-> saved.goals]]
    IN  IF method # "POST"
        THEN [profile |-> row,
              response |-> [status |-> "render", message |-> "",
                            calculate_and_save_goals |-> not_called]]
        ELSE IF UserProfileEditForm_is_valid(data)
        THEN updated(UserProfileEditForm_save(row, data, today))
        ELSE [profile |-> row,
              response |-> [status |-> "render",
                            message |-> "Please correct the errors below.",
                            calculate_and_save_goals |-> not_called]]

\* the users who send the requests of the profile flow
ProfileUsers == {"alice"}

\* the day of the requests
Todays == {Date(2025, 6, 15)}

\* what request.POST.get gives the onboarding wizard: a str, or None for a
\* field the form did not send
OnboardingPosts ==
    [weight_kg : {PyNone, Str("abc"), Str("0"), Str("70")},
     height_cm : {Str("0"), Str("175")},
     date_of_birth : {PyNone, Str(""), Str("1995-06-15")},
     gender : {Str("M"), Str("O")},
     activity_level : {PyNone, Str("moderate")},
     health_goal : {Str("maintain")}]

\* the POST of a GET request
NoPost ==
    [weight_kg |-> PyNone, height_cm |-> PyNone, date_of_birth |-> PyNone,
     gender |-> PyNone, activity_level |-> PyNone, health_goal |-> PyNone]

\* what the fields of the profile form parse to when the goal is left blank:
\* weights and heights within and at the ends of the validators' ranges;
\* birthdays today, tomorrow and earlier this year
BlankGoalForms ==
    [weight_kg : {I(20), I(70), I(300)},
     height_cm : {I(175), I(250)},
     date_of_birth : {Date(1995, 6, 15), Date(1995, 6, 16), Date(2025, 3, 1)},
     gender : {Str("M"), Str("F"), Str("O")},
     activity_level : {Str("sedentary"), Str("very_active")},
     health_goal : {Str("weight_loss"), Str("muscle_gain")},
     daily_calorie_goal : {PyNone},
     water_goal_liters : {I(2)}]

\* the forms above, and one each with the weight left blank, the date of
\* birth left blank, a goal typed in, a weight below the range and a goal
\* above the range
ProfileForms ==
    LET form == [weight_kg |-> I(70), height_cm |-> I(175),
                 date_of_birth |-> Date(1995, 6, 15), gender |-> Str("F"),
                 activity_level |-> Str("moderate"), health_goal |-> Str("maintain"),
                 daily_calorie_goal |-> PyNone, water_goal_liters |-> R(5, 2)]
    IN  BlankGoalForms
            \cup {[form EXCEPT !.weight_kg = PyNone],
                  [form EXCEPT !.date_of_birth = PyNone],
                  [form EXCEPT !.daily_calorie_goal = Num(1500)],
                  [form EXCEPT !.weight_kg = I(10)],
                  [form EXCEPT !.daily_calorie_goal = Num(6000)]}

call_onboarding_wizard ==
    /\ fn = "none"
    /\ \E u \in ProfileUsers, today \in Todays, method \in {"GET", "POST"},
          POST \in OnboardingPosts \cup {NoPost} :
           /\ (method = "GET") = (POST = NoPost)
           /\ \E out \in {onboarding_wizard(profiles[u], method, POST, today)} :
                  /\ fn' = "onboarding_wizard"
                  /\ args' = [user |-> u, method |-> method, POST |-> POST,
                              today |-> today]
                  /\ ret' = Return(out.response)
                  /\ profiles' = [profiles EXCEPT ![u] = out.profile]
    /\ UNCHANGED <<thread_vars, daily_logs, food_entries, predictions, sequences,
                   requests, history>>

call_profile_edit_view ==
    /\ fn = "none"
    /\ \E u \in ProfileUsers, today \in Todays, data \in ProfileForms :
           \E out \in {profile_edit_view(profiles[u], "POST", data, today)} :
               /\ fn' = "profile_edit_view"
               /\ args' = [user |-> u, method |-> "POST", POST |-> data,
                           today |-> today]
               /\ ret' = Return(out.response)
               /\ profiles' = [profiles EXCEPT ![u] = out.profile]
    /\ UNCHANGED <<thread_vars, daily_logs, food_entries, predictions, sequences,
                   requests, history>>

NextProfile ==
    \/ call_onboarding_wizard
    \/ call_profile_edit_view
    \/ return_to_caller

SpecProfile == Init /\ [][NextProfile]_vars

\* C22: an onboarding POST by a user whose onboarding is not complete, with a
\* valid weight, height, date of birth, gender, activity level and health
\* goal, leaves the row with is_onboarding_complete = True, the BMI and the
\* water goal of the engine and a daily calorie goal.
C22_ValidOnboardingCompletes ==
    [][LET u == args'.user
           POST == args'.POST
           in_range(x, lo, hi) ==
               /\ float(x).kind = "return"
               /\ RLe(I(lo), float(x).val) /\ RLe(float(x).val, I(hi))
           valid ==
               /\ in_range(POST.weight_kg, 20, 300)
               /\ in_range(POST.height_cm, 100, 250)
               /\ POST.date_of_birth = Str("1995-06-15")
               /\ POST.gender \in {Str("M"), Str("F"), Str("O")}
               /\ POST.activity_level = Str("moderate")
               /\ POST.health_goal = Str("maintain")
       IN  (/\ fn = "none" /\ fn' = "onboarding_wizard"
            /\ args'.method = "POST"
            /\ ~profiles[u].is_onboarding_complete
            /\ valid)
           => /\ profiles'[u].is_onboarding_complete
              /\ profiles'[u].bmi
                     = calculate_bmi(float(POST.weight_kg).val, float(POST.height_cm).val).val
              /\ profiles'[u].water_goal_liters
                     = calculate_water_goal(float(POST.weight_kg).val).val
              /\ profiles'[u].daily_calorie_goal # PyNone]_vars

\* C27: an onboarding POST that ends without the redirect (a required value
\* missing, or an exception while parsing or calculating) leaves every row as
\* it was, is_onboarding_complete still False; and the flag goes from False
\* to True only in a request whose calculate_and_save_goals returned True.
C27_FailedOnboardingChangesNothing ==
    [][(fn = "none" /\ fn' = "onboarding_wizard" /\ args'.method = "POST")
       => LET u == args'.user
              goals == ret'.val.calculate_and_save_goals
          IN  /\ (~profiles[u].is_onboarding_complete /\ ret'.val.status = "render")
                 => /\ profiles' = profiles
                    /\ ~profiles'[u].is_onboarding_complete
                    /\ goals # Return(TRUE)
              /\ (~profiles[u].is_onboarding_complete /\ profiles'[u].is_onboarding_complete)
                 => goals = Return(TRUE)]_vars

\* a failed onboarding POST of a user whose row holds the values of an
\* earlier profile edit: the exception came after the BMI was calculated
C27_Witness ==
    /\ fn = "onboarding_wizard" /\ args.method = "POST"
    /\ ret.val.status = "render"
    /\ ret.val.calculate_and_save_goals = Raise("AttributeError")
    /\ args.POST.weight_kg = Str("70")
    /\ truthy_float(profiles[args.user].weight_kg)
    /\ profiles[args.user].weight_kg = I(300)
    /\ truthy_float(profiles[args.user].bmi)
    /\ ~profiles[args.user].is_onboarding_complete

\* C28: gender_for_calculation is 'male' for 'M' and 'female' for every other
\* gender, and the daily_calorie_goal persisted for a profile of gender 'O' is
\* the one calculate_and_save_goals leaves for gender 'F' with the same other
\* fields, which is the engine's goal for 'female'.
C28_OtherGenderCountsAsFemale ==
    /\ \A u \in Users :
           /\ gender_for_calculation(profiles[u]) \in {"male", "female"}
           /\ (gender_for_calculation(profiles[u]) = "male") = (profiles[u].gender = Str("M"))
    /\ (/\ fn = "profile_edit_view"
        /\ ret.val.calculate_and_save_goals = Return(TRUE)
        /\ args.POST.gender = Str("O")
        /\ profiles[args.user].daily_calorie_goal # PyNone)
       => LET self == profiles[args.user]
              as_F == calculate_and_save_goals([self EXCEPT !.gender = Str("F")], args.today)
              tdee == calculate_tdee(self.weight_kg, self.height_cm,
                                     age(self, args.today).val.int, "female",
                                     self.activity_level.str)
          IN  /\ self.daily_calorie_goal = as_F.self.daily_calorie_goal
              /\ self.daily_calorie_goal
                     = Num(calculate_calorie_goal_for_goal(tdee.val, self.health_goal.str).val)

\* a profile of gender 'O' whose goal was calculated and lies above the floor
\* of 1200, where the BMR of the genders' mean would give another value
C28_Witness ==
    /\ fn = "profile_edit_view"
    /\ ret.val.calculate_and_save_goals = Return(TRUE)
    /\ args.POST.gender = Str("O")
    /\ profiles[args.user].gender = Str("O")
    /\ profiles[args.user].daily_calorie_goal # PyNone
    /\ profiles[args.user].daily_calorie_goal.int > 1200

\* C29: a daily_calorie_goal that calculate_and_save_goals persisted for a
\* profile with a weight of 20..300 kg and a height of 100..250 cm lies
\* within 1200..5000.
C29_PersistedGoalWithinValidators ==
    (/\ fn = "profile_edit_view"
     /\ ret.val.calculate_and_save_goals = Return(TRUE)
     /\ profiles[args.user].daily_calorie_goal # PyNone)
    => LET self == profiles[args.user]
       IN  /\ RLe(I(20), self.weight_kg) /\ RLe(self.weight_kg, I(300))
           /\ RLe(I(100), self.height_cm) /\ RLe(self.height_cm, I(250))
           /\ 1200 <= self.daily_calorie_goal.int
           /\ self.daily_calorie_goal.int <= 5000

(* The logging flow (src/pycalorie): DailyLog, FoodEntry and CaloriePrediction
   rows and the views that write them.  The site runs without ATOMIC_REQUESTS
   and the views open no transaction, so every ORM statement commits on its
   own; a worker serves one request at a time and requests[w] holds its
   position and its in-memory objects.  A row's id is wrapped (Num), as is a
   foreign key that may be None.  history counts the requests started and the
   add_water requests completed, and records the predictions a FoodEntry row
   was inserted from. *)

\* the requests started in a run
MaxRequests == 3

\* the day of the requests (timezone.now().date())
Today == Date(2025, 6, 15)

\* Model.save() of a row with a primary key: UPDATE, and INSERT if no row
\* was updated
Model_save(table, row) == {r \in table : r.id # row.id} \cup {row}

\* a variant of get_object_or_404 that looks the id up among all users' rows
get_object_or_404_any_user(table, id, user) ==
    IF \E r \in table : r.id = Num(id)
    THEN Return(CHOOSE r \in table : r.id = Num(id))
    ELSE Raise("Http404")

\* get_object_or_404(Model, id=id, user=request.user)
get_object_or_404(table, id, user) ==
    IF \E r \in table : r.id = Num(id) /\ r.user = user
    THEN Return(CHOOSE r \in table : r.id = Num(id) /\ r.user = user)
    ELSE Raise("Http404")

\* DailyLog.objects.get(user=user, date=date)
DailyLog_objects_get(table, user, date) ==
    IF ~\E r \in table : r.user = user /\ r.date = date
    THEN Raise("DoesNotExist")
    ELSE IF Cardinality({r \in table : r.user = user /\ r.date = date}) > 1
    THEN Raise("MultipleObjectsReturned")
    ELSE Return(CHOOSE r \in table : r.user = user /\ r.date = date)

\* a variant of DailyLog.objects.create without unique_together
DailyLog_objects_create_not_unique(table, id, user, date, defaults) ==
    Return([id |-> Num(id), user |-> user, date |-> date,
            total_calories |-> I(0), total_protein |-> I(0), total_carbs |-> I(0),
            total_fat |-> I(0), total_fiber |-> I(0), total_water_liters |-> I(0),
            calorie_goal |-> IF defaults = PyNone THEN PyNone ELSE defaults.calorie_goal])

\* DailyLog.objects.create(user=user, date=date, **defaults) under
\* unique_together = ['user', 'date']: the row with the fields' defaults
DailyLog_objects_create(table, id, user, date, defaults) ==
    IF \E r \in table : r.user = user /\ r.date = date
    THEN Raise("IntegrityError")
    ELSE Return([id |-> Num(id), user |-> user, date |-> date,
                 total_calories |-> I(0), total_protein |-> I(0), total_carbs |-> I(0),
                 total_fat |-> I(0), total_fiber |-> I(0), total_water_liters |-> I(0),
                 calorie_goal |-> IF defaults = PyNone THEN PyNone
                                  ELSE defaults.calorie_goal])

\* FoodEntry.total_calories and the properties after it: from the Food row
\* when the entry has one, else the entry's own field
total_calories(entry) ==
    IF entry.food # PyNone
    THEN RDiv(RMul(entry.food.calories_per_100g, entry.quantity), I(100))
    ELSE entry.calories

total_protein(entry) ==
    IF entry.food # PyNone
    THEN RDiv(RMul(entry.food.protein_per_100g, entry.quantity), I(100))
    ELSE entry.protein

total_carbs(entry) ==
    IF entry.food # PyNone
    THEN RDiv(RMul(entry.food.carbs_per_100g, entry.quantity), I(100))
    ELSE entry.carbs

total_fat(entry) ==
    IF entry.food # PyNone
    THEN RDiv(RMul(entry.food.fat_per_100g, entry.quantity), I(100))
    ELSE entry.fat

total_fiber(entry) ==
    IF entry.food # PyNone
    THEN RDiv(RMul(entry.food.fiber_per_100g, entry.quantity), I(100))
    ELSE entry.fiber

\* sum(values) over the rows of a query: values maps each row to its float
RECURSIVE sum(_)
sum(values) ==
    IF DOMAIN values = {} THEN I(0)
    ELSE LET row == CHOOSE r \in DOMAIN values : TRUE
         IN  RAdd(values[row], sum([r \in DOMAIN values \ {row} |-> values[r]]))

\* DailyLog.update_totals up to its save: the totals over the entries the
\* query returned, and the profile's goal when it has one
update_totals(self, entries, profile) ==
    [self EXCEPT
        !.total_calories = sum([entry \in entries |-> total_calories(entry)]),
        !.total_protein = sum([entry \in entries |-> total_protein(entry)]),
        !.total_carbs = sum([entry \in entries |-> total_carbs(entry)]),
        !.total_fat = sum([entry \in entries |-> total_fat(entry)]),
        !.total_fiber = sum([entry \in entries |-> total_fiber(entry)]),
        !.calorie_goal = IF truthy(profile.daily_calorie_goal)
                         THEN profile.daily_calorie_goal ELSE @]

\* what a POST of the food form parses to: one food, today
FoodLogPosts ==
    {[food_name |-> "apple", quantity |-> I(150), calories |-> I(95),
      protein |-> I(1), carbs |-> I(25), fat |-> I(2), date |-> Today]}

\* what a POST of the edit form parses to
EditPosts ==
    {[food_name |-> "pear", quantity |-> I(200), calories |-> I(120),
      protein |-> I(3), carbs |-> I(30), fat |-> I(4)]}

\* what the AI answers to a description or an image
Predicted ==
    [predicted_food_name |-> "rice", predicted_calories |-> I(200),
     predicted_protein |-> I(5), predicted_carbs |-> I(45), predicted_fat |-> I(1),
     predicted_quantity |-> I(100)]

\* the quantities of a POST to save_prediction_to_log
SaveQuantities == {I(200)}

\* the users who log food, water and predictions; every user may address
\* an entry or a prediction by its id
Loggers == {"alice"}

\* the ids a request can address
EntryIds == 1..MaxRequests
PredictionIds == 1..MaxRequests

\* a FoodEntry before its first save
FoodEntry(user, food_name, quantity, calories, protein, carbs, fat, date, is_ai_generated) ==
    [id |-> PyNone, user |-> user, daily_log |-> PyNone, food |-> PyNone,
     food_name |-> food_name, quantity |-> quantity, calories |-> calories,
     protein |-> protein, carbs |-> carbs, fat |-> fat, fiber |-> I(0),
     date |-> date, is_ai_generated |-> is_ai_generated]

\* where a request goes on after DailyLog.objects.get_or_create returned
after_get_or_create(request) ==
    IF request.view = "add_water" THEN "add_water.save"
    ELSE IF request.view = "dashboard" THEN "update_totals"
    ELSE IF request.entry.daily_log = PyNone THEN "FoodEntry.save.daily_log"
    ELSE "update_totals"

\* where a request goes on after update_totals saved the log
after_update_totals(request) ==
    IF request.view = "save_prediction_to_log" THEN "prediction.save" ELSE "done"

\* POST to food_log: the form parses and FoodEntry.objects.create starts
food_log ==
    /\ history.requests < MaxRequests
    /\ \E w \in Workers, u \in Loggers, POST \in FoodLogPosts :
           /\ requests[w] = NoRequest
           /\ requests' = [requests EXCEPT ![w] =
                  [NoRequest EXCEPT
                      !.view = "food_log", !.pc = "FoodEntry.save", !.user = u,
                      !.date = POST.date,
                      !.entry = FoodEntry(u, POST.food_name, POST.quantity, POST.calories,
                                          POST.protein, POST.carbs, POST.fat, POST.date,
                                          FALSE)]]
    /\ history' = [history EXCEPT !.requests = @ + 1]
    /\ UNCHANGED <<fn, args, ret, thread_vars, profiles, daily_logs, food_entries,
                   predictions, sequences>>

\* POST to edit_food_entry: the lookup among the user's entries, then the
\* fields are set and entry.save() starts
edit_food_entry ==
    /\ history.requests < MaxRequests
    /\ \E w \in Workers, u \in Users, entry_id \in EntryIds, POST \in EditPosts :
           /\ requests[w] = NoRequest
           /\ \E entry \in {get_object_or_404(food_entries, entry_id, u)} :
                  requests' = [requests EXCEPT ![w] =
                      IF entry.kind = "raise"
                      THEN [NoRequest EXCEPT
                               !.view = "edit_food_entry", !.id = entry_id, !.pc = "done", !.user = u,
                               !.response = "not_found"]
                      ELSE [NoRequest EXCEPT
                               !.view = "edit_food_entry", !.id = entry_id, !.pc = "FoodEntry.save",
                               !.user = u, !.date = entry.val.date,
                               !.entry = [entry.val EXCEPT
                                             !.food_name = POST.food_name,
                                             !.quantity = POST.quantity,
                                             !.calories = POST.calories,
                                             !.protein = POST.protein,
                                             !.carbs = POST.carbs,
                                             !.fat = POST.fat]]]
    /\ history' = [history EXCEPT !.requests = @ + 1]
    /\ UNCHANGED <<fn, args, ret, thread_vars, profiles, daily_logs, food_entries,
                   predictions, sequences>>

\* POST to delete_food_entry: the lookup among the user's entries
delete_food_entry ==
    /\ history.requests < MaxRequests
    /\ \E w \in Workers, u \in Users, entry_id \in EntryIds :
           /\ requests[w] = NoRequest
           /\ \E entry \in {get_object_or_404(food_entries, entry_id, u)} :
                  requests' = [requests EXCEPT ![w] =
                      IF entry.kind = "raise"
                      THEN [NoRequest EXCEPT
                               !.view = "delete_food_entry", !.id = entry_id, !.pc = "done", !.user = u,
                               !.response = "not_found"]
                      ELSE [NoRequest EXCEPT
                               !.view = "delete_food_entry", !.id = entry_id, !.pc = "entry.delete",
                               !.user = u, !.date = entry.val.date,
                               !.entry = entry.val]]
    /\ history' = [history EXCEPT !.requests = @ + 1]
    /\ UNCHANGED <<fn, args, ret, thread_vars, profiles, daily_logs, food_entries,
                   predictions, sequences>>

\* entry.delete() in delete_food_entry, and the redirect
entry_delete ==
    /\ \E w \in Workers :
           /\ requests[w].pc = "entry.delete"
           /\ food_entries' = {row \in food_entries : row.id # requests[w].entry.id}
           /\ requests' = [requests EXCEPT ![w].pc = "done", ![w].response = "success"]
    /\ UNCHANGED <<fn, args, ret, thread_vars, profiles, daily_logs, predictions,
                   sequences, history>>

\* POST to add_water: get_or_create of today's log starts
add_water ==
    /\ history.requests < MaxRequests
    /\ \E w \in Workers, u \in Loggers :
           /\ requests[w] = NoRequest
           /\ requests' = [requests EXCEPT ![w] =
                  [NoRequest EXCEPT !.view = "add_water", !.pc = "get_or_create",
                                    !.user = u, !.date = Today]]
    /\ history' = [history EXCEPT !.requests = @ + 1]
    /\ UNCHANGED <<fn, args, ret, thread_vars, profiles, daily_logs, food_entries,
                   predictions, sequences>>

\* daily_log.total_water_liters += 0.25 and daily_log.save() in add_water, and
\* the JSON response
add_water_save ==
    /\ \E w \in Workers :
           /\ requests[w].pc = "add_water.save"
           /\ \E daily_log \in {[requests[w].daily_log EXCEPT
                                    !.total_water_liters = RAdd(@, R(1, 4))]} :
                  /\ daily_logs' = Model_save(daily_logs, daily_log)
                  /\ requests' = [requests EXCEPT ![w].pc = "done",
                                                  ![w].daily_log = daily_log,
                                                  ![w].response = "success"]
           /\ history' = [history EXCEPT !.add_water[requests[w].user] = @ + 1]
    /\ UNCHANGED <<fn, args, ret, thread_vars, profiles, food_entries, predictions,
                   sequences>>

\* GET of the dashboard: the redirect to the onboarding wizard, or
\* get_or_create of today's log starts, with the profile's goal as default
dashboard ==
    /\ history.requests < MaxRequests
    /\ \E w \in Workers, u \in Loggers :
           /\ requests[w] = NoRequest
           /\ requests' = [requests EXCEPT ![w] =
                  IF ~profiles[u].is_onboarding_complete
                  THEN [NoRequest EXCEPT !.view = "dashboard", !.pc = "done", !.user = u,
                                         !.response = "redirect"]
                  ELSE [NoRequest EXCEPT
                           !.view = "dashboard", !.pc = "get_or_create", !.user = u,
                           !.date = Today,
                           !.defaults = [calorie_goal |-> profiles[u].daily_calorie_goal]]]
    /\ history' = [history EXCEPT !.requests = @ + 1]
    /\ UNCHANGED <<fn, args, ret, thread_vars, profiles, daily_logs, food_entries,
                   predictions, sequences>>

\* POST to predict_from_text: predict_calories stores the AI's answer, not
\* yet saved to the log
predict_from_text ==
    /\ history.requests < MaxRequests
    /\ \E w \in Workers, u \in Loggers :
           /\ requests[w] = NoRequest
           /\ \E prediction \in {[id |-> Num(sequences.prediction), user |-> u,
                                  predicted |-> Predicted, was_saved_to_log |-> FALSE]} :
                  /\ predictions' = predictions \cup {prediction}
                  /\ requests' = [requests EXCEPT ![w] =
                         [NoRequest EXCEPT !.view = "predict_from_text", !.pc = "done",
                                           !.user = u, !.prediction = prediction,
                                           !.response = "success"]]
    /\ sequences' = [sequences EXCEPT !.prediction = @ + 1]
    /\ history' = [history EXCEPT !.requests = @ + 1]
    /\ UNCHANGED <<fn, args, ret, thread_vars, profiles, daily_logs, food_entries>>

\* POST to predict_from_image: analyze_food_image stores the prediction as
\* saved to the log, and FoodEntry.objects.create starts
predict_from_image ==
    /\ history.requests < MaxRequests
    /\ \E w \in Workers, u \in Loggers :
           /\ requests[w] = NoRequest
           /\ \E prediction \in {[id |-> Num(sequences.prediction), user |-> u,
                                  predicted |-> Predicted, was_saved_to_log |-> TRUE]} :
                  /\ predictions' = predictions \cup {prediction}
                  /\ requests' = [requests EXCEPT ![w] =
                         [NoRequest EXCEPT
                             !.view = "predict_from_image", !.pc = "FoodEntry.save",
                             !.user = u, !.date = Today, !.prediction = prediction,
                             !.entry = FoodEntry(u, Predicted.predicted_food_name,
                                                 Predicted.predicted_quantity,
                                                 Predicted.predicted_calories,
                                                 Predicted.predicted_protein,
                                                 Predicted.predicted_carbs,
                                                 Predicted.predicted_fat, Today, TRUE)]]
    /\ sequences' = [sequences EXCEPT !.prediction = @ + 1]
    /\ history' = [history EXCEPT !.requests = @ + 1]
    /\ UNCHANGED <<fn, args, ret, thread_vars, profiles, daily_logs, food_entries>>

\* POST to save_prediction_to_log: the lookup among the user's predictions,
\* the nutrition scaled to the quantity, and FoodEntry.objects.create starts
save_prediction_to_log ==
    /\ history.requests < MaxRequests
    /\ \E w \in Workers, u \in Users, prediction_id \in PredictionIds,
          quantity \in SaveQuantities :
           /\ requests[w] = NoRequest
           /\ \E prediction \in {get_object_or_404(predictions, prediction_id, u)} :
                  LET quantity_ratio ==
                          RDiv(quantity, prediction.val.predicted.predicted_quantity)
                  IN
                  requests' = [requests EXCEPT ![w] =
                      IF prediction.kind = "raise"
                      THEN [NoRequest EXCEPT
                               !.view = "save_prediction_to_log", !.id = prediction_id, !.pc = "done",
                               !.user = u, !.response = "not_found"]
                      ELSE [NoRequest EXCEPT
                               !.view = "save_prediction_to_log", !.id = prediction_id, !.pc = "FoodEntry.save",
                               !.user = u, !.date = Today, !.prediction = prediction.val,
                               !.entry = FoodEntry(
                                   u, prediction.val.predicted.predicted_food_name, quantity,
                                   RMul(prediction.val.predicted.predicted_calories, quantity_ratio),
                                   RMul(prediction.val.predicted.predicted_protein, quantity_ratio),
                                   RMul(prediction.val.predicted.predicted_carbs, quantity_ratio),
                                   RMul(prediction.val.predicted.predicted_fat, quantity_ratio),
                                   Today, TRUE)]]
    /\ history' = [history EXCEPT !.requests = @ + 1]
    /\ UNCHANGED <<fn, args, ret, thread_vars, profiles, daily_logs, food_entries,
                   predictions, sequences>>

\* prediction.was_saved_to_log = True and prediction.save() in
\* save_prediction_to_log, and the redirect
prediction_save ==
    /\ \E w \in Workers :
           /\ requests[w].pc = "prediction.save"
           /\ \E prediction \in {[requests[w].prediction EXCEPT !.was_saved_to_log = TRUE]} :
                  /\ predictions' = Model_save(predictions, prediction)
                  /\ requests' = [requests EXCEPT ![w].pc = "done",
                                                  ![w].prediction = prediction,
                                                  ![w].response = "success"]
    /\ UNCHANGED <<fn, args, ret, thread_vars, profiles, daily_logs, food_entries,
                   sequences, history>>

\* super().save() at the head of FoodEntry.save: an INSERT for a new entry,
\* an UPDATE (or INSERT, if the row is gone) for a loaded one; the statement
\* may fail in the database, which every caller catches
FoodEntry_save ==
    /\ \E w \in Workers, ok \in BOOLEAN :
           /\ requests[w].pc = "FoodEntry.save"
           /\ IF ~ok
              THEN /\ requests' = [requests EXCEPT ![w].pc = "done",
                                                   ![w].response = "error"]
                   /\ UNCHANGED <<food_entries, sequences, history>>
              ELSE IF requests[w].entry.id = PyNone
              THEN \E entry \in {[requests[w].entry EXCEPT
                                     !.id = Num(sequences.food_entry)]} :
                       /\ food_entries' = food_entries \cup {entry}
                       /\ sequences' = [sequences EXCEPT !.food_entry = @ + 1]
                       /\ requests' = [requests EXCEPT ![w].pc = "get_or_create",
                                                       ![w].entry = entry]
                       /\ history' = [history EXCEPT !.saved_predictions =
                              IF requests[w].prediction = PyNone THEN @
                              ELSE @ \cup {requests[w].prediction.id}]
              ELSE /\ food_entries' = Model_save(food_entries, requests[w].entry)
                   /\ requests' = [requests EXCEPT ![w].pc = "get_or_create"]
                   /\ UNCHANGED <<sequences, history>>
    /\ UNCHANGED <<fn, args, ret, thread_vars, profiles, daily_logs, predictions>>

\* DailyLog.objects.get_or_create(user=, date=): the get
get_or_create ==
    /\ \E w \in Workers :
           /\ requests[w].pc = "get_or_create"
           /\ \E daily_log \in {DailyLog_objects_get(daily_logs, requests[w].user,
                                                     requests[w].date)} :
                  requests' = [requests EXCEPT ![w] =
                      IF daily_log.kind = "return"
                      THEN [@ EXCEPT !.daily_log = daily_log.val, !.get_or_create = "get",
                                     !.pc = after_get_or_create(requests[w])]
                      ELSE IF daily_log.val = "DoesNotExist"
                      THEN [@ EXCEPT !.pc = "get_or_create.create"]
                      ELSE [@ EXCEPT !.pc = "done", !.response = "error"]]
    /\ UNCHANGED <<fn, args, ret, thread_vars, profiles, daily_logs, food_entries,
                   predictions, sequences, history>>

\* DailyLog.objects.get_or_create(user=, date=) after the get found nothing:
\* the create, and the get that follows an IntegrityError
get_or_create_create ==
    /\ \E w \in Workers :
           /\ requests[w].pc = "get_or_create.create"
           /\ \E created \in {DailyLog_objects_create(
                                  daily_logs, sequences.daily_log, requests[w].user,
                                  requests[w].date, requests[w].defaults)} :
                  IF created.kind = "return"
                  THEN /\ daily_logs' = daily_logs \cup {created.val}
                       /\ sequences' = [sequences EXCEPT !.daily_log = @ + 1]
                       /\ requests' = [requests EXCEPT ![w] =
                              [@ EXCEPT !.daily_log = created.val,
                                        !.get_or_create = "created",
                                        !.pc = after_get_or_create(requests[w])]]
                  ELSE /\ requests' = [requests EXCEPT ![w] =
                              [@ EXCEPT !.daily_log =
                                            DailyLog_objects_get(daily_logs, requests[w].user,
                                                                 requests[w].date).val,
                                        !.get_or_create = "IntegrityError",
                                        !.pc = after_get_or_create(requests[w])]]
                       /\ UNCHANGED <<daily_logs, sequences>>
    /\ UNCHANGED <<fn, args, ret, thread_vars, profiles, food_entries, predictions,
                   history>>

\* self.daily_log = daily_log and super().save(update_fields=['daily_log'])
\* in FoodEntry.save, which raises when the row is gone
FoodEntry_save_daily_log ==
    /\ \E w \in Workers :
           /\ requests[w].pc = "FoodEntry.save.daily_log"
           /\ IF \E row \in food_entries : row.id = requests[w].entry.id
              THEN /\ food_entries' =
                          {IF row.id = requests[w].entry.id
                           THEN [row EXCEPT !.daily_log = requests[w].daily_log.id]
                           ELSE row : row \in food_entries}
                   /\ requests' = [requests EXCEPT
                          ![w].entry.daily_log = requests[w].daily_log.id,
                          ![w].pc = "update_totals"]
              ELSE /\ requests' = [requests EXCEPT ![w].pc = "done",
                                                   ![w].response = "error"]
                   /\ UNCHANGED food_entries
    /\ UNCHANGED <<fn, args, ret, thread_vars, profiles, daily_logs, predictions,
                   sequences, history>>

\* daily_log.update_totals(): the query for the log's entries, the sums and
\* the profile's goal
update_totals_query ==
    /\ \E w \in Workers :
           /\ requests[w].pc = "update_totals"
           /\ requests' = [requests EXCEPT
                  ![w].daily_log =
                      update_totals(@, {entry \in food_entries : entry.daily_log = @.id},
                                    profiles[requests[w].user]),
                  ![w].pc = "update_totals.save"]
    /\ UNCHANGED <<fn, args, ret, thread_vars, profiles, daily_logs, food_entries,
                   predictions, sequences, history>>

\* self.save() at the end of update_totals: every field of the log is
\* written from the object in memory
update_totals_save ==
    /\ \E w \in Workers :
           /\ requests[w].pc = "update_totals.save"
           /\ daily_logs' = Model_save(daily_logs, requests[w].daily_log)
           /\ requests' = [requests EXCEPT ![w] =
                  IF after_update_totals(@) = "done"
                  THEN [@ EXCEPT !.pc = "done", !.response = "success"]
                  ELSE [@ EXCEPT !.pc = after_update_totals(requests[w])]]
    /\ UNCHANGED <<fn, args, ret, thread_vars, profiles, food_entries, predictions,
                   sequences, history>>

\* the response leaves and the worker is free for the next request
respond ==
    /\ \E w \in Workers :
           /\ requests[w].pc = "done"
           /\ requests' = [requests EXCEPT ![w] = NoRequest]
    /\ UNCHANGED <<fn, args, ret, thread_vars, profiles, daily_logs, food_entries,
                   predictions, sequences, history>>

\* the goal the staff enter
AdminGoals == {Num(2000)}

\* UserProfileAdmin: the staff complete a profile by hand
UserProfileAdmin ==
    /\ \E u \in Loggers, goal \in AdminGoals :
           /\ ~profiles[u].is_onboarding_complete
           /\ profiles' = [profiles EXCEPT ![u].is_onboarding_complete = TRUE,
                                           ![u].daily_calorie_goal = goal]
    /\ UNCHANGED <<fn, args, ret, thread_vars, daily_logs, food_entries, predictions,
                   sequences, requests, history>>

NextLog ==
    \/ food_log
    \/ edit_food_entry
    \/ delete_food_entry
    \/ entry_delete
    \/ add_water
    \/ add_water_save
    \/ dashboard
    \/ predict_from_text
    \/ predict_from_image
    \/ save_prediction_to_log
    \/ prediction_save
    \/ FoodEntry_save
    \/ get_or_create
    \/ get_or_create_create
    \/ FoodEntry_save_daily_log
    \/ update_totals_query
    \/ update_totals_save
    \/ respond
    \/ UserProfileAdmin

SpecLog == Init /\ [][NextLog]_vars

\* C23: when a food-entry request (food_log, edit_food_entry,
\* delete_food_entry) has completed with success and no other request is
\* under way, the DailyLog of its user and date holds in total_calories,
\* total_protein, total_carbs, total_fat and total_fiber the sums over the
\* food entries linked to it.
C23_TotalsEqualSums ==
    \A w \in Workers :
        (/\ requests[w].pc = "done" /\ requests[w].response = "success"
         /\ requests[w].view \in {"food_log", "edit_food_entry", "delete_food_entry"}
         /\ \A other \in Workers \ {w} : requests[other] = NoRequest)
        => \A log \in daily_logs :
               (log.user = requests[w].user /\ log.date = requests[w].date)
               => log = update_totals(log, {entry \in food_entries : entry.daily_log = log.id},
                                      [daily_calorie_goal |-> PyNone])

\* C24: no two DailyLog rows have the same user and date.
C24_OneDailyLogPerUserAndDate ==
    \A log, other \in daily_logs :
        (log.user = other.user /\ log.date = other.date) => log = other

\* two requests of different views ran get_or_create for the same user and
\* date at once: one created the log, the other met the IntegrityError and
\* got that log
C24_Witness ==
    \E w, other \in Workers :
        /\ requests[w].get_or_create = "IntegrityError"
        /\ requests[other].get_or_create = "created"
        /\ requests[w].view # requests[other].view
        /\ requests[w].user = requests[other].user
        /\ requests[w].date = requests[other].date
        /\ requests[w].daily_log.id = requests[other].daily_log.id
        /\ Cardinality(daily_logs) = 1

\* C25: when no request is under way, today's DailyLog of a user holds 0.25
\* liters for each of the user's completed add_water requests.
C25_EveryAddWaterCounts ==
    (\A w \in Workers : requests[w] = NoRequest)
    => \A u \in Users :
           history.add_water[u] > 0
           => \E log \in daily_logs :
                  /\ log.user = u /\ log.date = Today
                  /\ log.total_water_liters = R(history.add_water[u], 4)

\* C26: a request to edit_food_entry, delete_food_entry or
\* save_prediction_to_log that addresses a row of another user ends in
\* not-found in its first step and changes no food entry, no DailyLog and no
\* prediction.
C26_OnlyOwnRecords ==
    [][\A w \in Workers :
           LET request == requests'[w]
               table == IF request.view = "save_prediction_to_log"
                        THEN predictions ELSE food_entries
           IN  (/\ requests[w] = NoRequest
                /\ request.view \in {"edit_food_entry", "delete_food_entry",
                                     "save_prediction_to_log"}
                /\ \E row \in table : row.id = Num(request.id) /\ row.user # request.user)
               => /\ request.pc = "done" /\ request.response = "not_found"
                  /\ food_entries' = food_entries
                  /\ daily_logs' = daily_logs
                  /\ predictions' = predictions]_vars

\* bob asked for alice's food entry, which was totalled in her log, and got
\* not-found
C26_Witness ==
    \E w \in Workers :
        /\ requests[w].view = "edit_food_entry"
        /\ requests[w].user = "bob"
        /\ requests[w].response = "not_found"
        /\ \E row \in food_entries :
               /\ row.id = Num(requests[w].id) /\ row.user = "alice"
               /\ \E log \in daily_logs :
                      row.daily_log = log.id /\ log.total_calories = row.calories

\* C30: when no request is under way, every CaloriePrediction with
\* was_saved_to_log = True is one a FoodEntry row was inserted from.
C30_SavedFlagHasFoodEntry ==
    (\A w \in Workers : requests[w] = NoRequest)
    => \A prediction \in predictions :
           prediction.was_saved_to_log => prediction.id \in history.saved_predictions

====
